---- MODULE Spec2Model ----
(***************************************************************************)
(* A model of the academic tutor agent (src/tutor_agent.py), its paper     *)
(* store (src/database.py) and its download client                         *)
(* (src/api_integrations.py).                                              *)
(*                                                                         *)
(* A text of Python is a sequence of code points. Here it is a TLA+ string *)
(* when all its code points have a character in CharTable, and the         *)
(* sequence of its code points, as numbers, when one of them has none.     *)
(* str.lower, str.upper, the classifier and the collation of SQLite are    *)
(* defined on every text; the handlers on the texts that are strings,      *)
(* computed character by character with Len, SubSeq and \o.                *)
(***************************************************************************)
EXTENDS Integers, Sequences, FiniteSets, TLC

(***************************************************************************)
(* Text primitives                                                         *)
(***************************************************************************)
\* the character of a string at the place of its code point: the code points 1 to
\* 127 but 96, the backquote, with which no string of TLA+ can be written
CharTable ==
    <<"", "", "", "", "", "", "", "", "\t", "\n", "", "\f", "\r", "",
    "", "", "", "", "", "", "", "", "", "", "", "", "", "", "",
    "", "", " ", "!", "\"", "#", "$", "%", "&", "'", "(", ")", "*", "+",
    ",", "-", ".", "/", "0", "1", "2", "3", "4", "5", "6", "7", "8", "9", ":",
    ";", "<", "=", ">", "?", "@", "A", "B", "C", "D", "E", "F", "G", "H", "I",
    "J", "K", "L", "M", "N", "O", "P", "Q", "R", "S", "T", "U", "V", "W", "X",
    "Y", "Z", "[", "\\", "]", "^", "_", "", "a", "b", "c", "d", "e", "f", "g",
    "h", "i", "j", "k", "l", "m", "n", "o", "p", "q", "r", "s", "t", "u", "v",
    "w", "x", "y", "z", "{", "|", "}", "~", "">>

\* the code points that have a character
StringCodes == {p \in 1..Len(CharTable) : CharTable[p] # ""}

\* the i-th character of s, as a text of length 1
CharAt(s, i) == SubSeq(s, i, i)

\* Python: ord(c) for a string of length 1
CodeOf(c) == CHOOSE p \in StringCodes : CharTable[p] = c

\* the text is a string: TLC prints a string in double quotes and a sequence in
\* angle brackets
IsString(t) == SubSeq(ToString(t), 1, 1) = "\""

\* the code points of a text
Points(t) == IF IsString(t) THEN [i \in 1..Len(t) |-> CodeOf(CharAt(t, i))] ELSE t

RECURSIVE StringOf(_)
StringOf(points) ==
    IF Len(points) = 0 THEN "" ELSE CharTable[Head(points)] \o StringOf(Tail(points))

\* the text of a sequence of code points
Text(points) ==
    IF \A i \in 1..Len(points) : points[i] \in StringCodes THEN StringOf(points)
    ELSE points

\* a piece of a text is the string: a piece of a text that is a sequence is a
\* sequence, and is the string when it holds the code points of the string
TextIs(t, string) == IF IsString(t) THEN t = string ELSE t = Points(string)

\* Python: k in m   (substring containment), k a string
Contains(m, k) ==
    IF IsString(m)
    THEN \E i \in 1..(Len(m) - Len(k) + 1) : SubSeq(m, i, i + Len(k) - 1) = k
    ELSE \E i \in 1..(Len(m) - Len(k) + 1) : SubSeq(m, i, i + Len(k) - 1) = Points(k)

(***************************************************************************)
(* The case mappings of CPython 3.11 (Unicode 14.0), as unicodedata and    *)
(* str.lower and str.upper give them for every code point. A row           *)
(* <<first, last, step, delta>> maps the code points first, first + step,  *)
(* ... up to last to themselves plus delta; a code point in no row is      *)
(* mapped to itself.                                                       *)
(***************************************************************************)
\* str.lower() of one code point, where it is one code point
LowerRanges ==
    <<<<65, 90, 1, 32>>, <<192, 214, 1, 32>>, <<216, 222, 1, 32>>,
    <<256, 302, 2, 1>>, <<306, 310, 2, 1>>, <<313, 327, 2, 1>>,
    <<330, 374, 2, 1>>, <<376, 376, 1, -121>>, <<377, 381, 2, 1>>,
    <<385, 385, 1, 210>>, <<386, 388, 2, 1>>, <<390, 390, 1, 206>>,
    <<391, 391, 1, 1>>, <<393, 394, 1, 205>>, <<395, 395, 1, 1>>,
    <<398, 398, 1, 79>>, <<399, 399, 1, 202>>, <<400, 400, 1, 203>>,
    <<401, 401, 1, 1>>, <<403, 403, 1, 205>>, <<404, 404, 1, 207>>,
    <<406, 406, 1, 211>>, <<407, 407, 1, 209>>, <<408, 408, 1, 1>>,
    <<412, 412, 1, 211>>, <<413, 413, 1, 213>>, <<415, 415, 1, 214>>,
    <<416, 420, 2, 1>>, <<422, 422, 1, 218>>, <<423, 423, 1, 1>>,
    <<425, 425, 1, 218>>, <<428, 428, 1, 1>>, <<430, 430, 1, 218>>,
    <<431, 431, 1, 1>>, <<433, 434, 1, 217>>, <<435, 437, 2, 1>>,
    <<439, 439, 1, 219>>, <<440, 440, 1, 1>>, <<444, 444, 1, 1>>,
    <<452, 452, 1, 2>>, <<453, 453, 1, 1>>, <<455, 455, 1, 2>>,
    <<456, 456, 1, 1>>, <<458, 458, 1, 2>>, <<459, 475, 2, 1>>,
    <<478, 494, 2, 1>>, <<497, 497, 1, 2>>, <<498, 500, 2, 1>>,
    <<502, 502, 1, -97>>, <<503, 503, 1, -56>>, <<504, 542, 2, 1>>,
    <<544, 544, 1, -130>>, <<546, 562, 2, 1>>, <<570, 570, 1, 10795>>,
    <<571, 571, 1, 1>>, <<573, 573, 1, -163>>, <<574, 574, 1, 10792>>,
    <<577, 577, 1, 1>>, <<579, 579, 1, -195>>, <<580, 580, 1, 69>>,
    <<581, 581, 1, 71>>, <<582, 590, 2, 1>>, <<880, 882, 2, 1>>,
    <<886, 886, 1, 1>>, <<895, 895, 1, 116>>, <<902, 902, 1, 38>>,
    <<904, 906, 1, 37>>, <<908, 908, 1, 64>>, <<910, 911, 1, 63>>,
    <<913, 929, 1, 32>>, <<931, 939, 1, 32>>, <<975, 975, 1, 8>>,
    <<984, 1006, 2, 1>>, <<1012, 1012, 1, -60>>, <<1015, 1015, 1, 1>>,
    <<1017, 1017, 1, -7>>, <<1018, 1018, 1, 1>>, <<1021, 1023, 1, -130>>,
    <<1024, 1039, 1, 80>>, <<1040, 1071, 1, 32>>, <<1120, 1152, 2, 1>>,
    <<1162, 1214, 2, 1>>, <<1216, 1216, 1, 15>>, <<1217, 1229, 2, 1>>,
    <<1232, 1326, 2, 1>>, <<1329, 1366, 1, 48>>, <<4256, 4293, 1, 7264>>,
    <<4295, 4295, 1, 7264>>, <<4301, 4301, 1, 7264>>, <<5024, 5103, 1, 38864>>,
    <<5104, 5109, 1, 8>>, <<7312, 7354, 1, -3008>>, <<7357, 7359, 1, -3008>>,
    <<7680, 7828, 2, 1>>, <<7838, 7838, 1, -7615>>, <<7840, 7934, 2, 1>>,
    <<7944, 7951, 1, -8>>, <<7960, 7965, 1, -8>>, <<7976, 7983, 1, -8>>,
    <<7992, 7999, 1, -8>>, <<8008, 8013, 1, -8>>, <<8025, 8031, 2, -8>>,
    <<8040, 8047, 1, -8>>, <<8072, 8079, 1, -8>>, <<8088, 8095, 1, -8>>,
    <<8104, 8111, 1, -8>>, <<8120, 8121, 1, -8>>, <<8122, 8123, 1, -74>>,
    <<8124, 8124, 1, -9>>, <<8136, 8139, 1, -86>>, <<8140, 8140, 1, -9>>,
    <<8152, 8153, 1, -8>>, <<8154, 8155, 1, -100>>, <<8168, 8169, 1, -8>>,
    <<8170, 8171, 1, -112>>, <<8172, 8172, 1, -7>>, <<8184, 8185, 1, -128>>,
    <<8186, 8187, 1, -126>>, <<8188, 8188, 1, -9>>, <<8486, 8486, 1, -7517>>,
    <<8490, 8490, 1, -8383>>, <<8491, 8491, 1, -8262>>, <<8498, 8498, 1, 28>>,
    <<8544, 8559, 1, 16>>, <<8579, 8579, 1, 1>>, <<9398, 9423, 1, 26>>,
    <<11264, 11311, 1, 48>>, <<11360, 11360, 1, 1>>,
    <<11362, 11362, 1, -10743>>, <<11363, 11363, 1, -3814>>,
    <<11364, 11364, 1, -10727>>, <<11367, 11371, 2, 1>>,
    <<11373, 11373, 1, -10780>>, <<11374, 11374, 1, -10749>>,
    <<11375, 11375, 1, -10783>>, <<11376, 11376, 1, -10782>>,
    <<11378, 11378, 1, 1>>, <<11381, 11381, 1, 1>>, <<11390, 11391, 1, -10815>>,
    <<11392, 11490, 2, 1>>, <<11499, 11501, 2, 1>>, <<11506, 11506, 1, 1>>,
    <<42560, 42604, 2, 1>>, <<42624, 42650, 2, 1>>, <<42786, 42798, 2, 1>>,
    <<42802, 42862, 2, 1>>, <<42873, 42875, 2, 1>>, <<42877, 42877, 1, -35332>>,
    <<42878, 42886, 2, 1>>, <<42891, 42891, 1, 1>>, <<42893, 42893, 1, -42280>>,
    <<42896, 42898, 2, 1>>, <<42902, 42920, 2, 1>>, <<42922, 42922, 1, -42308>>,
    <<42923, 42923, 1, -42319>>, <<42924, 42924, 1, -42315>>,
    <<42925, 42925, 1, -42305>>, <<42926, 42926, 1, -42308>>,
    <<42928, 42928, 1, -42258>>, <<42929, 42929, 1, -42282>>,
    <<42930, 42930, 1, -42261>>, <<42931, 42931, 1, 928>>,
    <<42932, 42946, 2, 1>>, <<42948, 42948, 1, -48>>,
    <<42949, 42949, 1, -42307>>, <<42950, 42950, 1, -35384>>,
    <<42951, 42953, 2, 1>>, <<42960, 42960, 1, 1>>, <<42966, 42968, 2, 1>>,
    <<42997, 42997, 1, 1>>, <<65313, 65338, 1, 32>>, <<66560, 66599, 1, 40>>,
    <<66736, 66771, 1, 40>>, <<66928, 66938, 1, 39>>, <<66940, 66954, 1, 39>>,
    <<66956, 66962, 1, 39>>, <<66964, 66965, 1, 39>>, <<68736, 68786, 1, 64>>,
    <<71840, 71871, 1, 32>>, <<93760, 93791, 1, 32>>, <<125184, 125217, 1, 34>>>>

\* str.upper() of one code point, where it is one code point
UpperRanges ==
    <<<<97, 122, 1, -32>>, <<181, 181, 1, 743>>, <<224, 246, 1, -32>>,
    <<248, 254, 1, -32>>, <<255, 255, 1, 121>>, <<257, 303, 2, -1>>,
    <<305, 305, 1, -232>>, <<307, 311, 2, -1>>, <<314, 328, 2, -1>>,
    <<331, 375, 2, -1>>, <<378, 382, 2, -1>>, <<383, 383, 1, -300>>,
    <<384, 384, 1, 195>>, <<387, 389, 2, -1>>, <<392, 392, 1, -1>>,
    <<396, 396, 1, -1>>, <<402, 402, 1, -1>>, <<405, 405, 1, 97>>,
    <<409, 409, 1, -1>>, <<410, 410, 1, 163>>, <<414, 414, 1, 130>>,
    <<417, 421, 2, -1>>, <<424, 424, 1, -1>>, <<429, 429, 1, -1>>,
    <<432, 432, 1, -1>>, <<436, 438, 2, -1>>, <<441, 441, 1, -1>>,
    <<445, 445, 1, -1>>, <<447, 447, 1, 56>>, <<453, 453, 1, -1>>,
    <<454, 454, 1, -2>>, <<456, 456, 1, -1>>, <<457, 457, 1, -2>>,
    <<459, 459, 1, -1>>, <<460, 460, 1, -2>>, <<462, 476, 2, -1>>,
    <<477, 477, 1, -79>>, <<479, 495, 2, -1>>, <<498, 498, 1, -1>>,
    <<499, 499, 1, -2>>, <<501, 501, 1, -1>>, <<505, 543, 2, -1>>,
    <<547, 563, 2, -1>>, <<572, 572, 1, -1>>, <<575, 576, 1, 10815>>,
    <<578, 578, 1, -1>>, <<583, 591, 2, -1>>, <<592, 592, 1, 10783>>,
    <<593, 593, 1, 10780>>, <<594, 594, 1, 10782>>, <<595, 595, 1, -210>>,
    <<596, 596, 1, -206>>, <<598, 599, 1, -205>>, <<601, 601, 1, -202>>,
    <<603, 603, 1, -203>>, <<604, 604, 1, 42319>>, <<608, 608, 1, -205>>,
    <<609, 609, 1, 42315>>, <<611, 611, 1, -207>>, <<613, 613, 1, 42280>>,
    <<614, 614, 1, 42308>>, <<616, 616, 1, -209>>, <<617, 617, 1, -211>>,
    <<618, 618, 1, 42308>>, <<619, 619, 1, 10743>>, <<620, 620, 1, 42305>>,
    <<623, 623, 1, -211>>, <<625, 625, 1, 10749>>, <<626, 626, 1, -213>>,
    <<629, 629, 1, -214>>, <<637, 637, 1, 10727>>, <<640, 640, 1, -218>>,
    <<642, 642, 1, 42307>>, <<643, 643, 1, -218>>, <<647, 647, 1, 42282>>,
    <<648, 648, 1, -218>>, <<649, 649, 1, -69>>, <<650, 651, 1, -217>>,
    <<652, 652, 1, -71>>, <<658, 658, 1, -219>>, <<669, 669, 1, 42261>>,
    <<670, 670, 1, 42258>>, <<837, 837, 1, 84>>, <<881, 883, 2, -1>>,
    <<887, 887, 1, -1>>, <<891, 893, 1, 130>>, <<940, 940, 1, -38>>,
    <<941, 943, 1, -37>>, <<945, 961, 1, -32>>, <<962, 962, 1, -31>>,
    <<963, 971, 1, -32>>, <<972, 972, 1, -64>>, <<973, 974, 1, -63>>,
    <<976, 976, 1, -62>>, <<977, 977, 1, -57>>, <<981, 981, 1, -47>>,
    <<982, 982, 1, -54>>, <<983, 983, 1, -8>>, <<985, 1007, 2, -1>>,
    <<1008, 1008, 1, -86>>, <<1009, 1009, 1, -80>>, <<1010, 1010, 1, 7>>,
    <<1011, 1011, 1, -116>>, <<1013, 1013, 1, -96>>, <<1016, 1016, 1, -1>>,
    <<1019, 1019, 1, -1>>, <<1072, 1103, 1, -32>>, <<1104, 1119, 1, -80>>,
    <<1121, 1153, 2, -1>>, <<1163, 1215, 2, -1>>, <<1218, 1230, 2, -1>>,
    <<1231, 1231, 1, -15>>, <<1233, 1327, 2, -1>>, <<1377, 1414, 1, -48>>,
    <<4304, 4346, 1, 3008>>, <<4349, 4351, 1, 3008>>, <<5112, 5117, 1, -8>>,
    <<7296, 7296, 1, -6254>>, <<7297, 7297, 1, -6253>>,
    <<7298, 7298, 1, -6244>>, <<7299, 7300, 1, -6242>>,
    <<7301, 7301, 1, -6243>>, <<7302, 7302, 1, -6236>>,
    <<7303, 7303, 1, -6181>>, <<7304, 7304, 1, 35266>>,
    <<7545, 7545, 1, 35332>>, <<7549, 7549, 1, 3814>>, <<7566, 7566, 1, 35384>>,
    <<7681, 7829, 2, -1>>, <<7835, 7835, 1, -59>>, <<7841, 7935, 2, -1>>,
    <<7936, 7943, 1, 8>>, <<7952, 7957, 1, 8>>, <<7968, 7975, 1, 8>>,
    <<7984, 7991, 1, 8>>, <<8000, 8005, 1, 8>>, <<8017, 8023, 2, 8>>,
    <<8032, 8039, 1, 8>>, <<8048, 8049, 1, 74>>, <<8050, 8053, 1, 86>>,
    <<8054, 8055, 1, 100>>, <<8056, 8057, 1, 128>>, <<8058, 8059, 1, 112>>,
    <<8060, 8061, 1, 126>>, <<8112, 8113, 1, 8>>, <<8126, 8126, 1, -7205>>,
    <<8144, 8145, 1, 8>>, <<8160, 8161, 1, 8>>, <<8165, 8165, 1, 7>>,
    <<8526, 8526, 1, -28>>, <<8560, 8575, 1, -16>>, <<8580, 8580, 1, -1>>,
    <<9424, 9449, 1, -26>>, <<11312, 11359, 1, -48>>, <<11361, 11361, 1, -1>>,
    <<11365, 11365, 1, -10795>>, <<11366, 11366, 1, -10792>>,
    <<11368, 11372, 2, -1>>, <<11379, 11379, 1, -1>>, <<11382, 11382, 1, -1>>,
    <<11393, 11491, 2, -1>>, <<11500, 11502, 2, -1>>, <<11507, 11507, 1, -1>>,
    <<11520, 11557, 1, -7264>>, <<11559, 11559, 1, -7264>>,
    <<11565, 11565, 1, -7264>>, <<42561, 42605, 2, -1>>,
    <<42625, 42651, 2, -1>>, <<42787, 42799, 2, -1>>, <<42803, 42863, 2, -1>>,
    <<42874, 42876, 2, -1>>, <<42879, 42887, 2, -1>>, <<42892, 42892, 1, -1>>,
    <<42897, 42899, 2, -1>>, <<42900, 42900, 1, 48>>, <<42903, 42921, 2, -1>>,
    <<42933, 42947, 2, -1>>, <<42952, 42954, 2, -1>>, <<42961, 42961, 1, -1>>,
    <<42967, 42969, 2, -1>>, <<42998, 42998, 1, -1>>, <<43859, 43859, 1, -928>>,
    <<43888, 43967, 1, -38864>>, <<65345, 65370, 1, -32>>,
    <<66600, 66639, 1, -40>>, <<66776, 66811, 1, -40>>,
    <<66967, 66977, 1, -39>>, <<66979, 66993, 1, -39>>,
    <<66995, 67001, 1, -39>>, <<67003, 67004, 1, -39>>,
    <<68800, 68850, 1, -64>>, <<71872, 71903, 1, -32>>,
    <<93792, 93823, 1, -32>>, <<125218, 125251, 1, -34>>>>

\* str.upper() of one code point, where it is more than one
UpperSpecials ==
    <<<<223, <<83, 83>>>>, <<329, <<700, 78>>>>, <<496, <<74, 780>>>>,
    <<912, <<921, 776, 769>>>>, <<944, <<933, 776, 769>>>>,
    <<1415, <<1333, 1362>>>>, <<7830, <<72, 817>>>>, <<7831, <<84, 776>>>>,
    <<7832, <<87, 778>>>>, <<7833, <<89, 778>>>>, <<7834, <<65, 702>>>>,
    <<8016, <<933, 787>>>>, <<8018, <<933, 787, 768>>>>,
    <<8020, <<933, 787, 769>>>>, <<8022, <<933, 787, 834>>>>,
    <<8064, <<7944, 921>>>>, <<8065, <<7945, 921>>>>, <<8066, <<7946, 921>>>>,
    <<8067, <<7947, 921>>>>, <<8068, <<7948, 921>>>>, <<8069, <<7949, 921>>>>,
    <<8070, <<7950, 921>>>>, <<8071, <<7951, 921>>>>, <<8072, <<7944, 921>>>>,
    <<8073, <<7945, 921>>>>, <<8074, <<7946, 921>>>>, <<8075, <<7947, 921>>>>,
    <<8076, <<7948, 921>>>>, <<8077, <<7949, 921>>>>, <<8078, <<7950, 921>>>>,
    <<8079, <<7951, 921>>>>, <<8080, <<7976, 921>>>>, <<8081, <<7977, 921>>>>,
    <<8082, <<7978, 921>>>>, <<8083, <<7979, 921>>>>, <<8084, <<7980, 921>>>>,
    <<8085, <<7981, 921>>>>, <<8086, <<7982, 921>>>>, <<8087, <<7983, 921>>>>,
    <<8088, <<7976, 921>>>>, <<8089, <<7977, 921>>>>, <<8090, <<7978, 921>>>>,
    <<8091, <<7979, 921>>>>, <<8092, <<7980, 921>>>>, <<8093, <<7981, 921>>>>,
    <<8094, <<7982, 921>>>>, <<8095, <<7983, 921>>>>, <<8096, <<8040, 921>>>>,
    <<8097, <<8041, 921>>>>, <<8098, <<8042, 921>>>>, <<8099, <<8043, 921>>>>,
    <<8100, <<8044, 921>>>>, <<8101, <<8045, 921>>>>, <<8102, <<8046, 921>>>>,
    <<8103, <<8047, 921>>>>, <<8104, <<8040, 921>>>>, <<8105, <<8041, 921>>>>,
    <<8106, <<8042, 921>>>>, <<8107, <<8043, 921>>>>, <<8108, <<8044, 921>>>>,
    <<8109, <<8045, 921>>>>, <<8110, <<8046, 921>>>>, <<8111, <<8047, 921>>>>,
    <<8114, <<8122, 921>>>>, <<8115, <<913, 921>>>>, <<8116, <<902, 921>>>>,
    <<8118, <<913, 834>>>>, <<8119, <<913, 834, 921>>>>, <<8124, <<913, 921>>>>,
    <<8130, <<8138, 921>>>>, <<8131, <<919, 921>>>>, <<8132, <<905, 921>>>>,
    <<8134, <<919, 834>>>>, <<8135, <<919, 834, 921>>>>, <<8140, <<919, 921>>>>,
    <<8146, <<921, 776, 768>>>>, <<8147, <<921, 776, 769>>>>,
    <<8150, <<921, 834>>>>, <<8151, <<921, 776, 834>>>>,
    <<8162, <<933, 776, 768>>>>, <<8163, <<933, 776, 769>>>>,
    <<8164, <<929, 787>>>>, <<8166, <<933, 834>>>>, <<8167, <<933, 776, 834>>>>,
    <<8178, <<8186, 921>>>>, <<8179, <<937, 921>>>>, <<8180, <<911, 921>>>>,
    <<8182, <<937, 834>>>>, <<8183, <<937, 834, 921>>>>, <<8188, <<937, 921>>>>,
    <<64256, <<70, 70>>>>, <<64257, <<70, 73>>>>, <<64258, <<70, 76>>>>,
    <<64259, <<70, 70, 73>>>>, <<64260, <<70, 70, 76>>>>, <<64261, <<83, 84>>>>,
    <<64262, <<83, 84>>>>, <<64275, <<1348, 1350>>>>, <<64276, <<1348, 1333>>>>,
    <<64277, <<1348, 1339>>>>, <<64278, <<1358, 1350>>>>,
    <<64279, <<1348, 1341>>>>>>

\* the code points <<first, last>> that are cased and not case-ignorable, and those
\* that are case-ignorable: what str.lower() looks at around a capital sigma
CasedPoints ==
    <<<<65, 90>>, <<97, 122>>, <<170, 170>>, <<181, 181>>, <<186, 186>>,
    <<192, 214>>, <<216, 246>>, <<248, 442>>, <<444, 447>>, <<452, 659>>,
    <<661, 687>>, <<880, 883>>, <<886, 887>>, <<891, 893>>, <<895, 895>>,
    <<902, 902>>, <<904, 906>>, <<908, 908>>, <<910, 929>>, <<931, 1013>>,
    <<1015, 1153>>, <<1162, 1327>>, <<1329, 1366>>, <<1376, 1416>>,
    <<4256, 4293>>, <<4295, 4295>>, <<4301, 4301>>, <<4304, 4346>>,
    <<4349, 4351>>, <<5024, 5109>>, <<5112, 5117>>, <<7296, 7304>>,
    <<7312, 7354>>, <<7357, 7359>>, <<7424, 7467>>, <<7531, 7543>>,
    <<7545, 7578>>, <<7680, 7957>>, <<7960, 7965>>, <<7968, 8005>>,
    <<8008, 8013>>, <<8016, 8023>>, <<8025, 8025>>, <<8027, 8027>>,
    <<8029, 8029>>, <<8031, 8061>>, <<8064, 8116>>, <<8118, 8124>>,
    <<8126, 8126>>, <<8130, 8132>>, <<8134, 8140>>, <<8144, 8147>>,
    <<8150, 8155>>, <<8160, 8172>>, <<8178, 8180>>, <<8182, 8188>>,
    <<8450, 8450>>, <<8455, 8455>>, <<8458, 8467>>, <<8469, 8469>>,
    <<8473, 8477>>, <<8484, 8484>>, <<8486, 8486>>, <<8488, 8488>>,
    <<8490, 8493>>, <<8495, 8500>>, <<8505, 8505>>, <<8508, 8511>>,
    <<8517, 8521>>, <<8526, 8526>>, <<8544, 8575>>, <<8579, 8580>>,
    <<9398, 9449>>, <<11264, 11387>>, <<11390, 11492>>, <<11499, 11502>>,
    <<11506, 11507>>, <<11520, 11557>>, <<11559, 11559>>, <<11565, 11565>>,
    <<42560, 42605>>, <<42624, 42651>>, <<42786, 42863>>, <<42865, 42887>>,
    <<42891, 42894>>, <<42896, 42954>>, <<42960, 42961>>, <<42963, 42963>>,
    <<42965, 42969>>, <<42997, 42998>>, <<43002, 43002>>, <<43824, 43866>>,
    <<43872, 43880>>, <<43888, 43967>>, <<64256, 64262>>, <<64275, 64279>>,
    <<65313, 65338>>, <<65345, 65370>>, <<66560, 66639>>, <<66736, 66771>>,
    <<66776, 66811>>, <<66928, 66938>>, <<66940, 66954>>, <<66956, 66962>>,
    <<66964, 66965>>, <<66967, 66977>>, <<66979, 66993>>, <<66995, 67001>>,
    <<67003, 67004>>, <<68736, 68786>>, <<68800, 68850>>, <<71840, 71903>>,
    <<93760, 93823>>, <<119808, 119892>>, <<119894, 119964>>,
    <<119966, 119967>>, <<119970, 119970>>, <<119973, 119974>>,
    <<119977, 119980>>, <<119982, 119993>>, <<119995, 119995>>,
    <<119997, 120003>>, <<120005, 120069>>, <<120071, 120074>>,
    <<120077, 120084>>, <<120086, 120092>>, <<120094, 120121>>,
    <<120123, 120126>>, <<120128, 120132>>, <<120134, 120134>>,
    <<120138, 120144>>, <<120146, 120485>>, <<120488, 120512>>,
    <<120514, 120538>>, <<120540, 120570>>, <<120572, 120596>>,
    <<120598, 120628>>, <<120630, 120654>>, <<120656, 120686>>,
    <<120688, 120712>>, <<120714, 120744>>, <<120746, 120770>>,
    <<120772, 120779>>, <<122624, 122633>>, <<122635, 122654>>,
    <<125184, 125251>>, <<127280, 127305>>, <<127312, 127337>>,
    <<127344, 127369>>>>

CaseIgnorable ==
    <<<<39, 39>>, <<46, 46>>, <<58, 58>>, <<94, 94>>, <<96, 96>>, <<168, 168>>,
    <<173, 173>>, <<175, 175>>, <<180, 180>>, <<183, 184>>, <<688, 879>>,
    <<884, 885>>, <<890, 890>>, <<900, 901>>, <<903, 903>>, <<1155, 1161>>,
    <<1369, 1369>>, <<1375, 1375>>, <<1425, 1469>>, <<1471, 1471>>,
    <<1473, 1474>>, <<1476, 1477>>, <<1479, 1479>>, <<1524, 1524>>,
    <<1536, 1541>>, <<1552, 1562>>, <<1564, 1564>>, <<1600, 1600>>,
    <<1611, 1631>>, <<1648, 1648>>, <<1750, 1757>>, <<1759, 1768>>,
    <<1770, 1773>>, <<1807, 1807>>, <<1809, 1809>>, <<1840, 1866>>,
    <<1958, 1968>>, <<2027, 2037>>, <<2042, 2042>>, <<2045, 2045>>,
    <<2070, 2093>>, <<2137, 2139>>, <<2184, 2184>>, <<2192, 2193>>,
    <<2200, 2207>>, <<2249, 2306>>, <<2362, 2362>>, <<2364, 2364>>,
    <<2369, 2376>>, <<2381, 2381>>, <<2385, 2391>>, <<2402, 2403>>,
    <<2417, 2417>>, <<2433, 2433>>, <<2492, 2492>>, <<2497, 2500>>,
    <<2509, 2509>>, <<2530, 2531>>, <<2558, 2558>>, <<2561, 2562>>,
    <<2620, 2620>>, <<2625, 2626>>, <<2631, 2632>>, <<2635, 2637>>,
    <<2641, 2641>>, <<2672, 2673>>, <<2677, 2677>>, <<2689, 2690>>,
    <<2748, 2748>>, <<2753, 2757>>, <<2759, 2760>>, <<2765, 2765>>,
    <<2786, 2787>>, <<2810, 2815>>, <<2817, 2817>>, <<2876, 2876>>,
    <<2879, 2879>>, <<2881, 2884>>, <<2893, 2893>>, <<2901, 2902>>,
    <<2914, 2915>>, <<2946, 2946>>, <<3008, 3008>>, <<3021, 3021>>,
    <<3072, 3072>>, <<3076, 3076>>, <<3132, 3132>>, <<3134, 3136>>,
    <<3142, 3144>>, <<3146, 3149>>, <<3157, 3158>>, <<3170, 3171>>,
    <<3201, 3201>>, <<3260, 3260>>, <<3263, 3263>>, <<3270, 3270>>,
    <<3276, 3277>>, <<3298, 3299>>, <<3328, 3329>>, <<3387, 3388>>,
    <<3393, 3396>>, <<3405, 3405>>, <<3426, 3427>>, <<3457, 3457>>,
    <<3530, 3530>>, <<3538, 3540>>, <<3542, 3542>>, <<3633, 3633>>,
    <<3636, 3642>>, <<3654, 3662>>, <<3761, 3761>>, <<3764, 3772>>,
    <<3782, 3782>>, <<3784, 3789>>, <<3864, 3865>>, <<3893, 3893>>,
    <<3895, 3895>>, <<3897, 3897>>, <<3953, 3966>>, <<3968, 3972>>,
    <<3974, 3975>>, <<3981, 3991>>, <<3993, 4028>>, <<4038, 4038>>,
    <<4141, 4144>>, <<4146, 4151>>, <<4153, 4154>>, <<4157, 4158>>,
    <<4184, 4185>>, <<4190, 4192>>, <<4209, 4212>>, <<4226, 4226>>,
    <<4229, 4230>>, <<4237, 4237>>, <<4253, 4253>>, <<4348, 4348>>,
    <<4957, 4959>>, <<5906, 5908>>, <<5938, 5939>>, <<5970, 5971>>,
    <<6002, 6003>>, <<6068, 6069>>, <<6071, 6077>>, <<6086, 6086>>,
    <<6089, 6099>>, <<6103, 6103>>, <<6109, 6109>>, <<6155, 6159>>,
    <<6211, 6211>>, <<6277, 6278>>, <<6313, 6313>>, <<6432, 6434>>,
    <<6439, 6440>>, <<6450, 6450>>, <<6457, 6459>>, <<6679, 6680>>,
    <<6683, 6683>>, <<6742, 6742>>, <<6744, 6750>>, <<6752, 6752>>,
    <<6754, 6754>>, <<6757, 6764>>, <<6771, 6780>>, <<6783, 6783>>,
    <<6823, 6823>>, <<6832, 6862>>, <<6912, 6915>>, <<6964, 6964>>,
    <<6966, 6970>>, <<6972, 6972>>, <<6978, 6978>>, <<7019, 7027>>,
    <<7040, 7041>>, <<7074, 7077>>, <<7080, 7081>>, <<7083, 7085>>,
    <<7142, 7142>>, <<7144, 7145>>, <<7149, 7149>>, <<7151, 7153>>,
    <<7212, 7219>>, <<7222, 7223>>, <<7288, 7293>>, <<7376, 7378>>,
    <<7380, 7392>>, <<7394, 7400>>, <<7405, 7405>>, <<7412, 7412>>,
    <<7416, 7417>>, <<7468, 7530>>, <<7544, 7544>>, <<7579, 7679>>,
    <<8125, 8125>>, <<8127, 8129>>, <<8141, 8143>>, <<8157, 8159>>,
    <<8173, 8175>>, <<8189, 8190>>, <<8203, 8207>>, <<8216, 8217>>,
    <<8228, 8228>>, <<8231, 8231>>, <<8234, 8238>>, <<8288, 8292>>,
    <<8294, 8303>>, <<8305, 8305>>, <<8319, 8319>>, <<8336, 8348>>,
    <<8400, 8432>>, <<11388, 11389>>, <<11503, 11505>>, <<11631, 11631>>,
    <<11647, 11647>>, <<11744, 11775>>, <<11823, 11823>>, <<12293, 12293>>,
    <<12330, 12333>>, <<12337, 12341>>, <<12347, 12347>>, <<12441, 12446>>,
    <<12540, 12542>>, <<40981, 40981>>, <<42232, 42237>>, <<42508, 42508>>,
    <<42607, 42610>>, <<42612, 42621>>, <<42623, 42623>>, <<42652, 42655>>,
    <<42736, 42737>>, <<42752, 42785>>, <<42864, 42864>>, <<42888, 42890>>,
    <<42994, 42996>>, <<43000, 43001>>, <<43010, 43010>>, <<43014, 43014>>,
    <<43019, 43019>>, <<43045, 43046>>, <<43052, 43052>>, <<43204, 43205>>,
    <<43232, 43249>>, <<43263, 43263>>, <<43302, 43309>>, <<43335, 43345>>,
    <<43392, 43394>>, <<43443, 43443>>, <<43446, 43449>>, <<43452, 43453>>,
    <<43471, 43471>>, <<43493, 43494>>, <<43561, 43566>>, <<43569, 43570>>,
    <<43573, 43574>>, <<43587, 43587>>, <<43596, 43596>>, <<43632, 43632>>,
    <<43644, 43644>>, <<43696, 43696>>, <<43698, 43700>>, <<43703, 43704>>,
    <<43710, 43711>>, <<43713, 43713>>, <<43741, 43741>>, <<43756, 43757>>,
    <<43763, 43764>>, <<43766, 43766>>, <<43867, 43871>>, <<43881, 43883>>,
    <<44005, 44005>>, <<44008, 44008>>, <<44013, 44013>>, <<64286, 64286>>,
    <<64434, 64450>>, <<65024, 65039>>, <<65043, 65043>>, <<65056, 65071>>,
    <<65106, 65106>>, <<65109, 65109>>, <<65279, 65279>>, <<65287, 65287>>,
    <<65294, 65294>>, <<65306, 65306>>, <<65342, 65342>>, <<65344, 65344>>,
    <<65392, 65392>>, <<65438, 65439>>, <<65507, 65507>>, <<65529, 65531>>,
    <<66045, 66045>>, <<66272, 66272>>, <<66422, 66426>>, <<67456, 67461>>,
    <<67463, 67504>>, <<67506, 67514>>, <<68097, 68099>>, <<68101, 68102>>,
    <<68108, 68111>>, <<68152, 68154>>, <<68159, 68159>>, <<68325, 68326>>,
    <<68900, 68903>>, <<69291, 69292>>, <<69446, 69456>>, <<69506, 69509>>,
    <<69633, 69633>>, <<69688, 69702>>, <<69744, 69744>>, <<69747, 69748>>,
    <<69759, 69761>>, <<69811, 69814>>, <<69817, 69818>>, <<69821, 69821>>,
    <<69826, 69826>>, <<69837, 69837>>, <<69888, 69890>>, <<69927, 69931>>,
    <<69933, 69940>>, <<70003, 70003>>, <<70016, 70017>>, <<70070, 70078>>,
    <<70089, 70092>>, <<70095, 70095>>, <<70191, 70193>>, <<70196, 70196>>,
    <<70198, 70199>>, <<70206, 70206>>, <<70367, 70367>>, <<70371, 70378>>,
    <<70400, 70401>>, <<70459, 70460>>, <<70464, 70464>>, <<70502, 70508>>,
    <<70512, 70516>>, <<70712, 70719>>, <<70722, 70724>>, <<70726, 70726>>,
    <<70750, 70750>>, <<70835, 70840>>, <<70842, 70842>>, <<70847, 70848>>,
    <<70850, 70851>>, <<71090, 71093>>, <<71100, 71101>>, <<71103, 71104>>,
    <<71132, 71133>>, <<71219, 71226>>, <<71229, 71229>>, <<71231, 71232>>,
    <<71339, 71339>>, <<71341, 71341>>, <<71344, 71349>>, <<71351, 71351>>,
    <<71453, 71455>>, <<71458, 71461>>, <<71463, 71467>>, <<71727, 71735>>,
    <<71737, 71738>>, <<71995, 71996>>, <<71998, 71998>>, <<72003, 72003>>,
    <<72148, 72151>>, <<72154, 72155>>, <<72160, 72160>>, <<72193, 72202>>,
    <<72243, 72248>>, <<72251, 72254>>, <<72263, 72263>>, <<72273, 72278>>,
    <<72281, 72283>>, <<72330, 72342>>, <<72344, 72345>>, <<72752, 72758>>,
    <<72760, 72765>>, <<72767, 72767>>, <<72850, 72871>>, <<72874, 72880>>,
    <<72882, 72883>>, <<72885, 72886>>, <<73009, 73014>>, <<73018, 73018>>,
    <<73020, 73021>>, <<73023, 73029>>, <<73031, 73031>>, <<73104, 73105>>,
    <<73109, 73109>>, <<73111, 73111>>, <<73459, 73460>>, <<78896, 78904>>,
    <<92912, 92916>>, <<92976, 92982>>, <<92992, 92995>>, <<94031, 94031>>,
    <<94095, 94111>>, <<94176, 94177>>, <<94179, 94180>>, <<110576, 110579>>,
    <<110581, 110587>>, <<110589, 110590>>, <<113821, 113822>>,
    <<113824, 113827>>, <<118528, 118573>>, <<118576, 118598>>,
    <<119143, 119145>>, <<119155, 119170>>, <<119173, 119179>>,
    <<119210, 119213>>, <<119362, 119364>>, <<121344, 121398>>,
    <<121403, 121452>>, <<121461, 121461>>, <<121476, 121476>>,
    <<121499, 121503>>, <<121505, 121519>>, <<122880, 122886>>,
    <<122888, 122904>>, <<122907, 122913>>, <<122915, 122916>>,
    <<122918, 122922>>, <<123184, 123197>>, <<123566, 123566>>,
    <<123628, 123631>>, <<125136, 125142>>, <<125252, 125259>>,
    <<127995, 127999>>, <<917505, 917505>>, <<917536, 917631>>,
    <<917760, 917999>>>>

\* p is in one of the rows <<first, last>>
InRanges(p, rows) == \E k \in 1..Len(rows) : rows[k][1] <= p /\ p <= rows[k][2]

\* the image of p under the rows <<first, last, step, delta>>
Shift(p, rows) ==
    LET hits == {k \in 1..Len(rows) : /\ rows[k][1] <= p /\ p <= rows[k][2]
                                      /\ (p - rows[k][1]) % rows[k][3] = 0}
    IN  IF hits = {} THEN p ELSE p + rows[CHOOSE k \in hits : TRUE][4]

\* the capital sigma at place i is final: the nearest code point before it that is
\* not case-ignorable is cased, and the nearest such after it, if any, is not
FinalSigma(points, i) ==
    LET before == {j \in 1..(i - 1) : ~InRanges(points[j], CaseIgnorable)}
        after  == {j \in (i + 1)..Len(points) : ~InRanges(points[j], CaseIgnorable)}
    IN  /\ before # {}
        /\ InRanges(points[CHOOSE j \in before : \A h \in before : h <= j], CasedPoints)
        /\ \/ after = {}
           \/ ~InRanges(points[CHOOSE j \in after : \A h \in after : j <= h], CasedPoints)

\* str.lower() of the code point at place i: the capital sigma (931) becomes the
\* final small sigma (962) or the small sigma (963), the capital I with dot above
\* (304) an i and a combining dot above
LowerAt(points, i) ==
    IF points[i] = 931 THEN <<IF FinalSigma(points, i) THEN 962 ELSE 963>>
    ELSE IF points[i] = 304 THEN <<105, 775>>
    ELSE <<Shift(points[i], LowerRanges)>>

RECURSIVE LowerPointsFrom(_, _)
LowerPointsFrom(points, i) ==
    IF i > Len(points) THEN <<>> ELSE LowerAt(points, i) \o LowerPointsFrom(points, i + 1)

\* str.lower() on code points
LowerPoints(points) == LowerPointsFrom(points, 1)

\* str.upper() of one code point
UpperOf(p) ==
    LET hits == {k \in 1..Len(UpperSpecials) : UpperSpecials[k][1] = p}
    IN  IF hits = {} THEN <<Shift(p, UpperRanges)>>
        ELSE UpperSpecials[CHOOSE k \in hits : TRUE][2]

RECURSIVE UpperPointsFrom(_, _)
UpperPointsFrom(points, i) ==
    IF i > Len(points) THEN <<>> ELSE UpperOf(points[i]) \o UpperPointsFrom(points, i + 1)

\* str.upper() on code points
UpperPoints(points) == UpperPointsFrom(points, 1)

UpperChars == "ABCDEFGHIJKLMNOPQRSTUVWXYZ"
LowerChars == "abcdefghijklmnopqrstuvwxyz"

\* str.lower() and str.title() on one letter of a string, as tables: of the code
\* points 1 to 127 the case mappings change the 52 letters only, and CasedPoints
\* holds no other of them
ToLower == [c \in {CharAt(UpperChars, i) : i \in 1..26} |->
               CharAt(LowerChars, CHOOSE i \in 1..26 : CharAt(UpperChars, i) = c)]
ToUpper == [c \in {CharAt(LowerChars, i) : i \in 1..26} |->
               CharAt(UpperChars, CHOOSE i \in 1..26 : CharAt(LowerChars, i) = c)]

UpperSet == {"A", "B", "C", "D", "E", "F", "G", "H", "I", "J", "K", "L", "M",
             "N", "O", "P", "Q", "R", "S", "T", "U", "V", "W", "X", "Y", "Z"}
LowerSet == {"a", "b", "c", "d", "e", "f", "g", "h", "i", "j", "k", "l", "m",
             "n", "o", "p", "q", "r", "s", "t", "u", "v", "w", "x", "y", "z"}

LowerChar(c) == IF c \in UpperSet THEN ToLower[c] ELSE c
UpperChar(c) == IF c \in LowerSet THEN ToUpper[c] ELSE c

RECURSIVE LowerFrom(_, _)
LowerFrom(m, i) ==
    IF i > Len(m) THEN "" ELSE LowerChar(CharAt(m, i)) \o LowerFrom(m, i + 1)

\* Python: m.lower()
lower(m) == IF IsString(m) THEN LowerFrom(m, 1) ELSE Text(LowerPoints(m))

RECURSIVE UpperFrom(_, _)
UpperFrom(m, i) ==
    IF i > Len(m) THEN "" ELSE UpperChar(CharAt(m, i)) \o UpperFrom(m, i + 1)

\* Python: m.upper()
upper(m) == IF IsString(m) THEN UpperFrom(m, 1) ELSE Text(UpperPoints(m))

\* the character class [a-f0-9]
HexChars == {"a", "b", "c", "d", "e", "f", "0", "1", "2", "3", "4", "5", "6", "7", "8", "9"}
IsHexChar(c) == \E h \in HexChars : TextIs(c, h)

\* number of characters of the class that the pattern asks for
PaperIdHexLen == 8

\* the pattern paper_[a-f0-9]{8} matches m at position i
PaperRefAt(m, i) ==
    /\ i + 5 + PaperIdHexLen <= Len(m)
    /\ TextIs(SubSeq(m, i, i + 5), "paper_")
    /\ \A j \in 1..PaperIdHexLen : IsHexChar(CharAt(m, i + 5 + j))

\* Python: re.search(r'paper_[a-f0-9]{8}', m) is not None
PaperRefSearch(m) == \E i \in 1..Len(m) : PaperRefAt(m, i)

\* Python: re.search(r'paper_[a-f0-9]{8}', m).group(0): the leftmost match
PaperRefGroup(m) ==
    LET i == CHOOSE k \in 1..Len(m) :
                 PaperRefAt(m, k) /\ \A h \in 1..(k - 1) : ~PaperRefAt(m, h)
    IN  SubSeq(m, i, i + 5 + PaperIdHexLen)

\* SQL NULL in a TEXT column and Python's None, where only truthiness is read
NoText == ""

\* Python: any(keyword in m for keyword in keywords)
AnyKeyword(keywords, m) == \E k \in keywords : Contains(m, k)

(***************************************************************************)
(* The intent classifier: AcademicTutorAgent._analyze_user_intent          *)
(***************************************************************************)
Intents == {"download_paper", "get_downloads", "generate_summary", "search_papers",
            "get_history", "get_interests", "general_chat"}

DownloadKeywords  == {"download", "get pdf", "save paper"}
DownloadsKeywords == {"my downloads", "downloaded papers", "show downloads"}
SummaryKeywords   == {"summarize", "summary", "explain"}
ExcludeKeywords   == {"search", "find"}
SearchKeywords    == {"search", "find", "paper", "research"}
HistoryKeywords   == {"history", "previous", "past searches"}
InterestKeywords  == {"interests", "topics", "my research"}

\* IsDownloadIntent with a fault: the keyword "download" is left out of the list
IsDownloadIntent_NoDownload(ml) == AnyKeyword({"get pdf", "save paper"}, ml)

\* line 65
IsDownloadIntent(ml) == AnyKeyword(DownloadKeywords, ml)

\* line 70
IsDownloadsHistoryIntent(ml) == AnyKeyword(DownloadsKeywords, ml)

\* IsPaperSummaryIntent with a fault: the paper-reference rule is missing
IsPaperSummaryIntent_Dropped(ml) == FALSE

\* line 75
IsPaperSummaryIntent(ml) == PaperRefSearch(ml) /\ AnyKeyword(SummaryKeywords, ml)

\* IsSummaryIntent with a fault: the exclusion of "search"/"find" is missing
IsSummaryIntent_NoExclusion(ml) == AnyKeyword(SummaryKeywords, ml)

\* line 80
IsSummaryIntent(ml) == AnyKeyword(SummaryKeywords, ml) /\ ~AnyKeyword(ExcludeKeywords, ml)

\* line 85
IsSearchIntent(ml) == AnyKeyword(SearchKeywords, ml) /\ ~PaperRefSearch(ml)

\* line 89
IsHistoryIntent(ml) == AnyKeyword(HistoryKeywords, ml)

\* line 92
IsInterestsIntent(ml) == AnyKeyword(InterestKeywords, ml)

\* the if/elif chain over the lower-cased message
ClassifyLowered(ml) ==
    IF IsDownloadIntent(ml) THEN "download_paper"
    ELSE IF IsDownloadsHistoryIntent(ml) THEN "get_downloads"
    ELSE IF IsPaperSummaryIntent(ml) THEN "generate_summary"
    ELSE IF IsSummaryIntent(ml) THEN "generate_summary"
    ELSE IF IsSearchIntent(ml) THEN "search_papers"
    ELSE IF IsHistoryIntent(ml) THEN "get_history"
    ELSE IF IsInterestsIntent(ml) THEN "get_interests"
    ELSE "general_chat"

\* _analyze_user_intent(message)
_analyze_user_intent(message) == ClassifyLowered(lower(message))

(***************************************************************************)
(* More text primitives, used by the handlers                              *)
(***************************************************************************)
\* the characters str.split() and str.strip() treat as white space, and \s: blank,
\* tab, newline, carriage return, form feed, and, written as the characters
\* themselves, the vertical tab (code 11) and the separators of codes 28 to 31.
\* Python takes the blanks outside ASCII as well; no text that is a string holds one.
IsSpaceChar(c) == c \in {" ", "\t", "\n", "\r", "\f", "", "", "", "", ""}

RECURSIVE lstrip(_)
lstrip(s) ==
    IF Len(s) > 0 /\ IsSpaceChar(CharAt(s, 1)) THEN lstrip(SubSeq(s, 2, Len(s))) ELSE s

RECURSIVE rstrip(_)
rstrip(s) ==
    IF Len(s) > 0 /\ IsSpaceChar(CharAt(s, Len(s)))
    THEN rstrip(SubSeq(s, 1, Len(s) - 1)) ELSE s

\* Python: s.strip()
strip(s) == rstrip(lstrip(s))

\* length of the longest prefix of s made of space characters (spaces = TRUE) or of others
RECURSIVE SpanLen(_, _)
SpanLen(s, spaces) ==
    IF Len(s) > 0 /\ (IsSpaceChar(CharAt(s, 1)) <=> spaces)
    THEN 1 + SpanLen(SubSeq(s, 2, Len(s)), spaces) ELSE 0

RECURSIVE split(_)
\* Python: s.split(): the maximal runs of non-space characters, in order
split(s) ==
    LET t == lstrip(s)
        n == SpanLen(t, FALSE)
    IN  IF Len(t) = 0 THEN <<>>
        ELSE <<SubSeq(t, 1, n)>> \o split(SubSeq(t, n + 1, Len(t)))

\* Python: seq[:n]
Take(seq, n) == SubSeq(seq, 1, IF Len(seq) < n THEN Len(seq) ELSE n)

\* position of the first occurrence of k in s at or after position from, 0 if none
FindFrom(s, k, from) ==
    LET hits == {i \in from..(Len(s) - Len(k) + 1) : SubSeq(s, i, i + Len(k) - 1) = k}
    IN  IF hits = {} THEN 0 ELSE CHOOSE i \in hits : \A j \in hits : i <= j

\* the rest of the line of s that starts at position i (the regex .+ from i)
LineFrom(s, i) ==
    LET stops == {j \in i..Len(s) : CharAt(s, j) = "\n"}
        end   == IF stops = {} THEN Len(s)
                 ELSE (CHOOSE j \in stops : \A h \in stops : j <= h) - 1
    IN  SubSeq(s, i, end)

\* Python: re.search(label + r'\s*(.+)', text): <<TRUE, group(1)>> or <<FALSE, "">>.
\* \s* is greedy and gives characters back until .+ finds one that is no newline.
RECURSIVE LabelSearchFrom(_, _, _)
LabelSearchFrom(text, label, from) ==
    LET at == FindFrom(text, label, from)
        j  == at + Len(label)
        w  == SpanLen(SubSeq(text, j, Len(text)), TRUE)
        ks == {k \in 0..w : j + k <= Len(text) /\ CharAt(text, j + k) # "\n"}
        k  == CHOOSE x \in ks : \A y \in ks : y <= x
    IN  IF at = 0 THEN <<FALSE, "">>
        ELSE IF ks = {} THEN LabelSearchFrom(text, label, at + 1)
        ELSE <<TRUE, LineFrom(text, j + k)>>

LabelSearch(text, label) == LabelSearchFrom(text, label, 1)

(***************************************************************************)
(* Formatting                                                              *)
(***************************************************************************)
BytesPerMB == 1048576

\* str(round(n / 1024 / 1024, 2)): hundredths rounded half to even, printed the
\* way Python prints the float
FormatMB(n) ==
    LET q == (n * 100) \div BytesPerMB
        r == (n * 100) % BytesPerMB
        h == IF 2 * r > BytesPerMB \/ (2 * r = BytesPerMB /\ q % 2 = 1) THEN q + 1 ELSE q
        f == h % 100
    IN  ToString(h \div 100) \o "." \o
        (IF f % 10 = 0 THEN ToString(f \div 10)
         ELSE IF f < 10 THEN "0" \o ToString(f) ELSE ToString(f))

\* ', '.join(names)
RECURSIVE JoinComma(_)
JoinComma(names) ==
    IF names = <<>> THEN ""
    ELSE IF Len(names) = 1 THEN names[1]
    ELSE names[1] \o ", " \o JoinComma(Tail(names))

\* s.title(): a letter is upper-cased after a non-letter, lower-cased after a letter
IsLetter(c) == LowerChar(c) # UpperChar(c)

RECURSIVE TitleFrom(_, _)
TitleFrom(s, afterLetter) ==
    IF Len(s) = 0 THEN ""
    ELSE (IF afterLetter THEN LowerChar(CharAt(s, 1)) ELSE UpperChar(CharAt(s, 1)))
         \o TitleFrom(SubSeq(s, 2, Len(s)), IsLetter(CharAt(s, 1)))

title(s) == TitleFrom(s, FALSE)

\* Python: seq[:10] on a time stamp: the date
DateOf(timestamp) == SubSeq(timestamp, 1, 10)

\* the readings of CURRENT_TIMESTAMP (UTC, a resolution of one second) that the
\* specifications take, in the order of time: rows written at one reading are rows
\* of the same second, and the second reading is of the next day
Clock == <<"2025-01-01 00:00:00", "2025-01-02 00:00:00">>

\* the place of a reading in time; SQLite compares the texts, which for this format
\* is the order of time
TimeRank(timestamp) == CHOOSE k \in DOMAIN Clock : Clock[k] = timestamp

\* the place of a text of length 1 in the order of the code points, which is the
\* order of the bytes of UTF-8 as well
CodeRank(c) == IF IsString(c) THEN CodeOf(c) ELSE c[1]

\* a comes before b in the BINARY collation of SQLite: byte by byte, a prefix first
RECURSIVE TextBefore(_, _)
TextBefore(a, b) ==
    IF Len(b) = 0 THEN FALSE
    ELSE IF Len(a) = 0 THEN TRUE
    ELSE IF CodeRank(CharAt(a, 1)) # CodeRank(CharAt(b, 1))
         THEN CodeRank(CharAt(a, 1)) < CodeRank(CharAt(b, 1))
    ELSE TextBefore(SubSeq(a, 2, Len(a)), SubSeq(b, 2, Len(b)))

(***************************************************************************)
(* Text functions of the search handler                                   *)
(***************************************************************************)
\* _extract_topics_from_query
Stopwords == {"in", "on", "for", "about", "and", "or", "the", "a", "an", "with",
              "find", "search", "papers"}

\* return topics[:3]
MaxTopics == 3

_extract_topics_from_query(query) ==
    Take(SelectSeq(split(lower(query)), LAMBDA word : word \notin Stopwords /\ Len(word) > 2),
         MaxTopics)

\* the query the handler takes from the extraction reply (lines 244-247)
ExtractQuery(extracted_text, message) ==
    LET query_match == LabelSearch(extracted_text, "QUERY:")
    IN  IF query_match[1] THEN strip(query_match[2]) ELSE message

\* the year the handler takes from the extraction reply (lines 245-248), NoText for None
ExtractYear(extracted_text) ==
    LET year_match == LabelSearch(extracted_text, "YEAR:")
    IN  IF year_match[1] /\ lower(strip(year_match[2])) # "none"
        THEN strip(year_match[2]) ELSE NoText

(***************************************************************************)
(* Text functions of the download client                                   *)
(***************************************************************************)
\* Less than 1KB is suspicious
MinPdfBytes == 1024

\* Python: s.replace(old, new) for single characters
RECURSIVE ReplaceChar(_, _, _)
ReplaceChar(s, old, new) ==
    IF Len(s) = 0 THEN ""
    ELSE (IF CharAt(s, 1) = old THEN new ELSE CharAt(s, 1))
         \o ReplaceChar(SubSeq(s, 2, Len(s)), old, new)

\* length of the longest prefix of s without "/" and "?"  (the class [^/?])
RECURSIVE IdSpanLen(_)
IdSpanLen(s) ==
    IF Len(s) > 0 /\ CharAt(s, 1) \notin {"/", "?"}
    THEN 1 + IdSpanLen(SubSeq(s, 2, Len(s))) ELSE 0

\* re.search(r'arxiv\.org/abs/([^/?]+)', url).group(1), NoText when nothing matches.
\* The second pattern, export\.arxiv\.org/abs/([^/?]+), matches only where the
\* first one does.
ArxivIdFromUrl(url) ==
    LET tag  == "arxiv.org/abs/"
        hits == {i \in 1..Len(url) :
                    /\ i + Len(tag) <= Len(url)
                    /\ SubSeq(url, i, i + Len(tag) - 1) = tag
                    /\ CharAt(url, i + Len(tag)) \notin {"/", "?"}}
        at   == CHOOSE i \in hits : \A j \in hits : i <= j
        rest == SubSeq(url, at + Len(tag), Len(url))
    IN  IF hits = {} THEN NoText ELSE SubSeq(rest, 1, IdSpanLen(rest))

\* os.path.join(download_dir, safe_filename) with download_dir = "downloads"
DownloadPath(arxiv_id) ==
    "downloads/" \o ReplaceChar(ReplaceChar(arxiv_id, "/", "_"), ":", "_") \o ".pdf"

(***************************************************************************)
(* The messages, provider answers and papers of the specifications        *)
(***************************************************************************)
SearchMessage   == "Find papers on machine learning for machine translation"
SummaryMessage  == "summarize paper_189adfd0"
DownloadMessage == "download paper_189adfd0"

\* what the model answers to the extraction prompt when it follows the format
ExtractionReply(m) ==
    IF m = SearchMessage
    THEN "QUERY: machine learning for machine translation\nYEAR: none"
    ELSE "QUERY: " \o m \o "\nYEAR: none"

\* and an answer that does not
OffFormatReply == "I am not sure what you are looking for."

ChatReply == "Happy to help with your research."

\* records as _arxiv_search builds them; id is "paper_" and the first 8 hex digits
\* of the MD5 of arxiv_id
Paper1 == [id |-> "paper_189adfd0", title |-> "Neural Machine Translation",
           authors |-> <<"A. Author", "B. Writer">>, year |-> 2023,
           abstract |-> "We translate with attention.",
           url |-> "https://arxiv.org/abs/2301.00001v1", search_query |-> "",
           arxiv_id |-> "2301.00001v1"]

\* an entry without a summary element: the abstract is ""
Paper2 == [id |-> "paper_ee79c214", title |-> "Untitled Notes",
           authors |-> <<"C. Scribe">>, year |-> 2023, abstract |-> "",
           url |-> "https://arxiv.org/abs/2302.00002v1", search_query |-> "",
           arxiv_id |-> "2302.00002v1"]

\* an entry whose title element holds only white space: the title is ""
Paper3 == [id |-> "paper_e565037a", title |-> "",
           authors |-> <<"D. Nameless">>, year |-> 2023,
           abstract |-> "Notes that were filed without a heading.",
           url |-> "https://arxiv.org/abs/2303.00003v1", search_query |-> "",
           arxiv_id |-> "2303.00003v1"]

SummaryTexts == {"**Key Findings:** attention helps.", "**Key Findings:** it works."}

SmallBytes   == 512
PdfBytes     == 2048
PartialBytes == 100

SpecMessages == {SearchMessage, SummaryMessage, DownloadMessage}

\* requests of the other kinds: a summary request that names the paper by its title,
\* one that names a paper no search has returned, a download request without a
\* paper reference, and requests for the history, the interests and a chat
TitleSummaryMessage   == "summarize Neural Machine Translation"
UnknownSummaryMessage == "summarize paper_0badc0de"
BareDownloadMessage   == "download the paper"
HistoryMessage        == "show my history"
InterestsMessage      == "what are my interests"
HelloMessage          == "hello"

DeskMessages ==
    SpecMessages \cup {TitleSummaryMessage, UnknownSummaryMessage, BareDownloadMessage,
                       HistoryMessage, InterestsMessage, HelloMessage}

\* requests that name a paper in other ways: the papers stored without an abstract
\* and without a title, a token with nine hex characters after paper_, and the
\* reference in capital letters
EmptyAbstractMessage == "summarize paper_ee79c214"
EmptyTitleMessage    == "summarize paper_e565037a"
LongRefMessage       == "summarize paper_189adfd01"
UpperRefMessage      == "Summarize PAPER_189ADFD0"
UpperDownloadMessage == "Download PAPER_189ADFD0"

RefMessages ==
    {SearchMessage, SummaryMessage, EmptyAbstractMessage, EmptyTitleMessage,
     LongRefMessage, UpperRefMessage, UpperDownloadMessage}

\* re.search(r'paper_[a-f0-9]{8}', message): group(0), NoText when there is no match
PaperRefOf(m) == IF PaperRefSearch(m) THEN PaperRefGroup(m) ELSE NoText

(***************************************************************************)
(* The paper store: DatabaseManager. Of the columns that SQLite fills in,  *)
(* the rows keep those the agent reads back: search_history.timestamp,     *)
(* user_interests.last_accessed and paper_downloads.download_date. The     *)
(* AUTOINCREMENT ids, chat_sessions.timestamp and cached_papers.cached_date *)
(* are read by no statement whose result reaches a response or the store.  *)
(* Every statement reads the clock itself: each writer is given the        *)
(* reading of its statement.                                               *)
(***************************************************************************)
\* the empty dict {}
EmptyDict == <<>>

\* Python: bool(d) for a dict
NonEmptyDict(d) == DOMAIN d # {}

\* SELECT ... FROM cached_papers WHERE paper_id = ?
PaperRows(tbl, paper_id) == {r \in tbl : r.paper_id = paper_id}

\* the row cache_paper writes, from the seven listed columns; summary is not among
\* them, so it is NULL in the row
PaperRow(paper_data) ==
    [paper_id     |-> paper_data.id,
     title        |-> paper_data.title,
     authors      |-> paper_data.authors,
     year         |-> paper_data.year,
     abstract     |-> paper_data.abstract,
     url          |-> paper_data.url,
     summary      |-> NoText,
     search_query |-> paper_data.search_query]

\* cache_paper with a fault: a plain INSERT, the row in conflict stays
cache_paper_Insert(tbl, paper_data) == tbl \cup {PaperRow(paper_data)}

\* cache_paper: INSERT OR REPLACE on the UNIQUE paper_id; the rows in conflict are
\* deleted and the new row is inserted
cache_paper(tbl, paper_data) ==
    (tbl \ PaperRows(tbl, paper_data.id)) \cup {PaperRow(paper_data)}

\* the dict get_cached_paper builds from a row
PaperDict(r) ==
    [id           |-> r.paper_id,
     title        |-> r.title,
     authors      |-> r.authors,
     year         |-> r.year,
     abstract     |-> r.abstract,
     url          |-> r.url,
     summary      |-> r.summary,
     search_query |-> r.search_query]

\* get_cached_paper with a fault: a paper that is not stored comes back as a row
\* with empty fields
get_cached_paper_Blank(tbl, paper_id) ==
    IF PaperRows(tbl, paper_id) # {}
    THEN PaperDict(CHOOSE r \in PaperRows(tbl, paper_id) : TRUE)
    ELSE [id |-> paper_id, title |-> NoText, authors |-> <<>>, year |-> 0,
          abstract |-> NoText, url |-> NoText, summary |-> NoText,
          search_query |-> NoText]

\* get_cached_paper: fetchone() as a dict, {} when there is no row
get_cached_paper(tbl, paper_id) ==
    IF PaperRows(tbl, paper_id) # {}
    THEN PaperDict(CHOOSE r \in PaperRows(tbl, paper_id) : TRUE)
    ELSE EmptyDict

\* save_paper_summary with a fault: the UPDATE is lost
save_paper_summary_Lost(tbl, paper_id, summary) == tbl

\* save_paper_summary: UPDATE ... SET summary = ? WHERE paper_id = ?
save_paper_summary(tbl, paper_id, summary) ==
    {IF r.paper_id = paper_id THEN [r EXCEPT !.summary = summary] ELSE r : r \in tbl}

\* log_search: one more row
log_search(tbl, user_id, query, now) ==
    Append(tbl, [user_id |-> user_id, query |-> query, search_type |-> "academic",
                 timestamp |-> now])

\* SELECT ... FROM user_interests WHERE user_id = ? AND topic = ?
InterestRows(tbl, user_id, topic) ==
    {r \in tbl : r.user_id = user_id /\ r.topic = topic}

\* COALESCE((SELECT interest_score ...) + 1, 1)
NextScore(rows) ==
    IF rows = {} THEN 1 ELSE (CHOOSE r \in rows : TRUE).interest_score + 1

\* the row update_user_interest writes
InterestRow(tbl, user_id, topic, now) ==
    [user_id |-> user_id, topic |-> topic,
     interest_score |-> NextScore(InterestRows(tbl, user_id, topic)),
     last_accessed |-> now]

\* update_user_interest with a fault: the score is written as 1 whatever the row held
update_user_interest_Reset(tbl, user_id, topic, now) ==
    (tbl \ InterestRows(tbl, user_id, lower(topic)))
        \cup {[user_id |-> user_id, topic |-> lower(topic), interest_score |-> 1,
               last_accessed |-> now]}

\* update_user_interest: INSERT OR REPLACE on UNIQUE(user_id, topic) with the topic
\* lowercased; the row in conflict is deleted and the new row is inserted
update_user_interest(tbl, user_id, topic, now) ==
    (tbl \ InterestRows(tbl, user_id, lower(topic)))
        \cup {InterestRow(tbl, user_id, lower(topic), now)}

\* log_chat_session with a fault: the row is written twice
log_chat_session_Twice(tbl, user_id, message, response, function_calls) ==
    Append(Append(tbl, [user_id |-> user_id, message |-> message, response |-> response,
                        function_calls |-> function_calls]),
           [user_id |-> user_id, message |-> message, response |-> response,
            function_calls |-> function_calls])

\* log_chat_session: one more row
log_chat_session(tbl, user_id, message, response, function_calls) ==
    Append(tbl, [user_id |-> user_id, message |-> message, response |-> response,
                 function_calls |-> function_calls])

\* log_paper_download with a fault: the INSERT is lost
log_paper_download_Lost(tbl, user_id, paper_id, file_path, arxiv_id, file_size, now) == tbl

\* log_paper_download: one more row
log_paper_download(tbl, user_id, paper_id, file_path, arxiv_id, file_size, now) ==
    Append(tbl, [user_id |-> user_id, paper_id |-> paper_id, file_path |-> file_path,
                 arxiv_id |-> arxiv_id, file_size |-> file_size, download_date |-> now])

\* get_user_search_history / get_user_interests / get_user_downloads: the user's rows
RowsOf(tbl, user_id) == SelectSeq(tbl, LAMBDA r : r.user_id = user_id)

InterestTopicsOf(tbl, user_id) == {r.topic : r \in {x \in tbl : x.user_id = user_id}}

(***************************************************************************)
(* The download client: AcademicAPIClient.download_paper                   *)
(***************************************************************************)
\* _get_arxiv_id_from_paper_id: None (NoText) when there is no row or no URL, and
\* when the lookup raises (raises), which its except clause turns into None
_get_arxiv_id_from_paper_id(tbl, paper_id, raises) ==
    IF raises THEN NoText
    ELSE IF PaperRows(tbl, paper_id) = {} THEN NoText
    ELSE IF (CHOOSE r \in PaperRows(tbl, paper_id) : TRUE).url = NoText THEN NoText
    ELSE ArxivIdFromUrl((CHOOSE r \in PaperRows(tbl, paper_id) : TRUE).url)

\* os.path.exists(file_path), files being the content of the downloads directory
os_path_exists(files, file_path) == file_path \in DOMAIN files

\* os.remove(file_path)
os_remove(files, file_path) == [f \in DOMAIN files \ {file_path} |-> files[f]]

\* open(file_path, 'wb') and the writes that happened: the file holds size bytes;
\* complete says whether the whole body got there
WriteFile(files, file_path, size, complete) ==
    [f \in DOMAIN files \cup {file_path} |->
        IF f = file_path THEN [size |-> size, complete |-> complete] ELSE files[f]]

DownloadFailure(paper_id, error) ==
    [success |-> FALSE, error |-> error, paper_id |-> paper_id]

DownloadSuccess(paper_id, arxiv_id, file_path, file_size, already_existed) ==
    [success |-> TRUE, file_path |-> file_path, file_size |-> file_size,
     arxiv_id |-> arxiv_id, paper_id |-> paper_id,
     download_url |-> "https://arxiv.org/pdf/" \o arxiv_id \o ".pdf",
     already_existed |-> already_existed]

\* lines 108-167: the GET and what follows it. net is what the network does:
\*   kind "ok"            the body arrives whole, net.size bytes
\*   kind "html"          the response is an HTML page
\*   kind "timeout"       requests.exceptions.Timeout from requests.get
\*   kind "request_error" another RequestException from requests.get/raise_for_status
\*   kind "stream_error"  a RequestException out of iter_content after net.size bytes
\*   kind "write_error"   an OSError out of f.write after net.size bytes
FetchAndSave(files, paper_id, arxiv_id, file_path, net) ==
    CASE net.kind = "timeout" ->
           [result |-> DownloadFailure(paper_id,
               "Download timed out. The paper might be large or the server is slow."),
            files |-> files]
      [] net.kind = "request_error" ->
           [result |-> DownloadFailure(paper_id, "Download failed: " \o net.error),
            files |-> files]
      [] net.kind = "html" ->
           [result |-> DownloadFailure(paper_id,
               "Paper not available for download (received HTML instead of PDF)"),
            files |-> files]
      [] net.kind = "stream_error" ->
           [result |-> DownloadFailure(paper_id, "Download failed: " \o net.error),
            files |-> WriteFile(files, file_path, net.size, FALSE)]
      [] net.kind = "write_error" ->
           [result |-> DownloadFailure(paper_id, "Unexpected error: " \o net.error),
            files |-> WriteFile(files, file_path, net.size, FALSE)]
      [] OTHER ->
           IF net.size < MinPdfBytes
           THEN [result |-> DownloadFailure(paper_id,
                    "Downloaded file appears to be invalid (too small)"),
                 files |-> os_remove(WriteFile(files, file_path, net.size, TRUE),
                                     file_path)]
           ELSE [result |-> DownloadSuccess(paper_id, arxiv_id, file_path, net.size,
                                            FALSE),
                 files |-> WriteFile(files, file_path, net.size, TRUE)]

\* download_paper with a fault: the file is fetched whether or not it is there already
download_paper_AlwaysFetch(tbl, files, paper_id, net, raises) ==
    LET arxiv_id  == _get_arxiv_id_from_paper_id(tbl, paper_id, raises)
        file_path == DownloadPath(arxiv_id)
    IN  IF arxiv_id = NoText
        THEN [result |-> DownloadFailure(paper_id,
                 "Could not find arXiv ID for this paper. Make sure the paper is from arXiv."),
              files |-> files, fetched |-> FALSE]
        ELSE FetchAndSave(files, paper_id, arxiv_id, file_path, net)
             @@ [fetched |-> TRUE]

\* download_paper(paper_id): [result, files, fetched], fetched saying whether
\* requests.get was called; raises tells that the store raises in the lookup
download_paper(tbl, files, paper_id, net, raises) ==
    LET arxiv_id  == _get_arxiv_id_from_paper_id(tbl, paper_id, raises)
        file_path == DownloadPath(arxiv_id)
    IN  IF arxiv_id = NoText
        THEN [result |-> DownloadFailure(paper_id,
                 "Could not find arXiv ID for this paper. Make sure the paper is from arXiv."),
              files |-> files, fetched |-> FALSE]
        ELSE IF os_path_exists(files, file_path)
        THEN [result |-> DownloadSuccess(paper_id, arxiv_id, file_path,
                                         files[file_path].size, TRUE),
              files |-> files, fetched |-> FALSE]
        ELSE FetchAndSave(files, paper_id, arxiv_id, file_path, net)
             @@ [fetched |-> TRUE]

(***************************************************************************)
(* The request handlers of AcademicTutorAgent.                             *)
(*                                                                         *)
(* A handler takes the store w = [cached_papers, search_history,           *)
(* user_interests, paper_downloads, files] and what its surroundings do    *)
(* during the call, env:                                                   *)
(*   env.llm     what self.model.generate_content does: [raises, text]     *)
(*   env.results what api_client.search_papers does: [raises, papers]      *)
(*   env.summary what api_client.generate_summary does: [raises, text]     *)
(*   env.net     what the network does to the PDF download                 *)
(*   env.store   "ok", or "handler": a call of the handler on the store    *)
(*               raises. Every call on                                     *)
(*               the store opens its own connection, so what the calls     *)
(*               before the failing one wrote stays written.               *)
(*   env.at      with store "handler", the number of the failing call      *)
(*               among the calls the handler makes on the store, from 1;   *)
(*               nothing raises when the handler makes fewer calls         *)
(*   env.log     log_chat_session raises, after the handler has returned,  *)
(*               whatever the handler did                                  *)
(*   env.now     the reading of CURRENT_TIMESTAMP when the call starts     *)
(*   env.tick    0, or the number, among the handler's statements that     *)
(*               write a time stamp, of the first one that reads the       *)
(*               next reading: SQLite reads the clock in each statement    *)
(* It returns [payload, w, calls]: the dict it returns, the store after    *)
(* it, and the provider calls it made, in order, each <<name, argument>>.  *)
(* Pictographs of the response texts are left out and their backquotes are *)
(* written as apostrophes: a TLA+ string holds neither.                    *)
(***************************************************************************)
\* str(e) of the exceptions that env injects
StoreError    == "database is locked"
ProviderError == "503 Service Unavailable"
\* str(e) of the AttributeError raised where a fallback calls _mock_paper_search or
\* _mock_generate_summary, which AcademicAPIClient does not define
NoMockSearch  == "'AcademicAPIClient' object has no attribute '_mock_paper_search'"
NoMockSummary == "'AcademicAPIClient' object has no attribute '_mock_generate_summary'"

Effect(payload, w, calls) == [payload |-> payload, w |-> w, calls |-> calls]

\* the k-th call of the handler on the store raises
Raises(env, k) == env.store = "handler" /\ env.at = k

\* the reading after a reading; the last reading of Clock stays
LaterReading(timestamp) ==
    Clock[IF TimeRank(timestamp) < Len(Clock) THEN TimeRank(timestamp) + 1
          ELSE Len(Clock)]

\* CURRENT_TIMESTAMP in the j-th statement of the handler that writes a time stamp
ReadingAt(env, j) ==
    IF env.tick # 0 /\ j >= env.tick THEN LaterReading(env.now) ELSE env.now

\* the loop over the papers with a fault: only the first paper is cached
CacheAll_FirstOnly(tbl, papers) ==
    IF papers = <<>> THEN tbl ELSE cache_paper(tbl, Head(papers))

\* for paper in papers: cache_paper(paper)
RECURSIVE CacheAll(_, _)
CacheAll(tbl, papers) ==
    IF papers = <<>> THEN tbl ELSE CacheAll(cache_paper(tbl, Head(papers)), Tail(papers))

\* for topic in topics: update_user_interest(user_id, topic), the statement of
\* topics[i] reading the clock at readings[i]
RECURSIVE UpdateAll(_, _, _, _)
UpdateAll(tbl, user_id, topics, readings) ==
    IF topics = <<>> THEN tbl
    ELSE UpdateAll(update_user_interest(tbl, user_id, Head(topics), Head(readings)),
                   user_id, Tail(topics), Tail(readings))

\* the numbered list of the search response, from entry i on
RECURSIVE PaperLines(_, _)
PaperLines(papers, i) ==
    IF i > Len(papers) THEN ""
    ELSE "**" \o ToString(i) \o ". " \o papers[i].title \o "** ("
         \o ToString(papers[i].year) \o ")\n"
         \o "Authors: " \o JoinComma(Take(papers[i].authors, 3)) \o "\n"
         \o "Paper ID: '" \o papers[i].id \o "'\n"
         \o "URL: " \o papers[i].url \o "\n\n"
         \o PaperLines(papers, i + 1)

NoResultsText ==
    "I couldn't find any papers matching your search criteria. Try different keywords or check the spelling."

\* api_client.search_papers(query, year, limit=3): the provider's records, each
\* carrying the query it was found with
WithQuery(papers, query) ==
    [i \in 1..Len(papers) |-> [papers[i] EXCEPT !.search_query = query]]

_handle_paper_search(w, user_id, message, env) ==
    LET query  == ExtractQuery(env.llm.text, message)
        papers == WithQuery(env.results.papers, query)
        topics == _extract_topics_from_query(query)
        \* the calls on the store: cache_paper per paper, log_search, and
        \* update_user_interest per topic; done of them return
        stores == Len(papers) + 1 + Len(topics)
        fails  == env.store = "handler" /\ env.at \in 1..stores
        done   == IF fails THEN env.at - 1 ELSE stores
        readings == [j \in 1..Len(topics) |-> ReadingAt(env, 1 + j)]
        w2 == [w EXCEPT !.cached_papers  = CacheAll(@, Take(papers, done)),
                        !.search_history =
                            IF done > Len(papers)
                            THEN log_search(@, user_id, query, ReadingAt(env, 1))
                            ELSE @,
                        !.user_interests =
                            IF done > Len(papers)
                            THEN UpdateAll(@, user_id,
                                           Take(topics, done - Len(papers) - 1), readings)
                            ELSE @]
        text == "I found " \o ToString(Len(papers)) \o " papers related to '" \o query
                \o "':\n\n" \o PaperLines(papers, 1)
                \o "You can ask me to summarize any of these papers by mentioning the paper ID or title!"
    IN  IF env.llm.raises
        THEN Effect([response |-> "Error searching for papers: " \o ProviderError],
                    w, <<<<"generate_content", "">>>>)
        ELSE IF env.results.raises
        THEN Effect([response |-> "Error searching for papers: " \o NoMockSearch],
                    w, <<<<"generate_content", "">>, <<"search_papers", query>>>>)
        ELSE IF papers = <<>>
        THEN Effect([response |-> NoResultsText], w, <<<<"generate_content", "">>, <<"search_papers", query>>>>)
        ELSE IF fails
        THEN Effect([response |-> "Error searching for papers: " \o StoreError],
                    w2, <<<<"generate_content", "">>, <<"search_papers", query>>>>)
        ELSE Effect([response |-> text, papers |-> papers,
                     function_calls |-> <<"search_papers">>],
                    w2, <<<<"generate_content", "">>, <<"search_papers", query>>>>)

SummaryPromptText ==
    "Please specify which paper you'd like me to summarize using the paper ID (like 'paper_50af359f') from the search results."

SummaryNotFoundText(paper_id) ==
    "I couldn't find paper " \o paper_id
    \o " in my cache. Please search for papers first and then try summarizing using the paper ID from the results."

MissingFieldsText(paper_id) ==
    "Missing title or abstract for paper " \o paper_id \o ". Cannot generate summary."

SummaryText(paper_title, summary) == "**Summary of: " \o paper_title \o "**\n\n" \o summary

\* the test with a fault: only the title is looked at
LacksTitleOrAbstract_TitleOnly(cached_paper) == cached_paper.title = NoText

\* not cached_paper.get("title") or not cached_paper.get("abstract")
LacksTitleOrAbstract(cached_paper) ==
    cached_paper.title = NoText \/ cached_paper.abstract = NoText

_handle_summary_request(w, user_id, message, env) ==
    LET paper_id     == PaperRefOf(message)
        cached_paper == get_cached_paper(w.cached_papers, paper_id)
        summary      == env.summary.text
    IN  IF paper_id = NoText THEN Effect([response |-> SummaryPromptText], w, <<>>)
        ELSE IF Raises(env, 1)
        THEN Effect([response |-> "Error generating summary: " \o StoreError], w, <<>>)
        ELSE IF ~NonEmptyDict(cached_paper) /\ Raises(env, 2)
        THEN Effect([response |-> "Error generating summary: " \o StoreError], w, <<>>)
        ELSE IF ~NonEmptyDict(cached_paper)
        THEN Effect([response |-> SummaryNotFoundText(paper_id)], w, <<>>)
        ELSE IF cached_paper.summary # NoText
        THEN Effect([response |-> SummaryText(cached_paper.title, cached_paper.summary),
                     summary |-> cached_paper.summary,
                     function_calls |-> <<"generate_summary">>], w, <<>>)
        ELSE IF LacksTitleOrAbstract(cached_paper)
        THEN Effect([response |-> MissingFieldsText(paper_id)], w, <<>>)
        ELSE IF env.summary.raises
        THEN Effect([response |-> "Error generating summary: " \o NoMockSummary],
                    w, <<<<"generate_summary", paper_id>>>>)
        ELSE IF summary # NoText /\ Raises(env, 2)
        THEN Effect([response |-> "Error generating summary: " \o StoreError],
                    w, <<<<"generate_summary", paper_id>>>>)
        ELSE Effect([response |-> SummaryText(cached_paper.title, summary),
                     summary |-> summary, function_calls |-> <<"generate_summary">>],
                    IF summary # NoText
                    THEN [w EXCEPT !.cached_papers = save_paper_summary(@, paper_id, summary)]
                    ELSE w,
                    <<<<"generate_summary", paper_id>>>>)

DownloadPromptText ==
    "Please specify which paper you'd like to download using the paper ID (like 'paper_50af359f') from the search results."

DownloadNotFoundText(paper_id) ==
    "I couldn't find paper " \o paper_id \o " in my cache. Please search for papers first."

DownloadCompleteText(cached_paper, download_result) ==
    "**Download Complete!**\n\n"
    \o "**Paper:** " \o cached_paper.title \o "\n"
    \o "**File:** " \o download_result.file_path \o "\n"
    \o "**Size:** " \o FormatMB(download_result.file_size) \o " MB\n"
    \o "**arXiv ID:** " \o download_result.arxiv_id \o "\n\n"
    \o "The paper has been downloaded to your local downloads folder!"

DownloadFailedText(cached_paper, download_result) ==
    "**Download Failed**\n\n"
    \o "**Paper:** " \o cached_paper.title \o "\n"
    \o "**Error:** " \o download_result.error \o "\n\n"
    \o "This might happen if the paper is not available on arXiv or there's a network issue."

_handle_download_request(w, user_id, message, env) ==
    LET paper_id     == PaperRefOf(message)
        cached_paper == get_cached_paper(w.cached_papers, paper_id)
        dl           == download_paper(w.cached_papers, w.files, paper_id, env.net,
                                       Raises(env, 2))
        calls        == IF dl.fetched THEN <<<<"requests.get", paper_id>>>> ELSE <<>>
    IN  IF paper_id = NoText
        THEN Effect([response |-> DownloadPromptText,
                     function_calls |-> <<"download_paper">>], w, <<>>)
        ELSE IF Raises(env, 1)
        THEN Effect([response |-> "Error downloading paper: " \o StoreError,
                     function_calls |-> <<"download_paper">>], w, <<>>)
        ELSE IF ~NonEmptyDict(cached_paper)
        THEN Effect([response |-> DownloadNotFoundText(paper_id),
                     function_calls |-> <<"download_paper">>], w, <<>>)
        ELSE IF dl.result.success /\ Raises(env, 3)
        THEN Effect([response |-> "Error downloading paper: " \o StoreError,
                     function_calls |-> <<"download_paper">>],
                    [w EXCEPT !.files = dl.files], calls)
        ELSE IF dl.result.success
        THEN Effect([response |-> DownloadCompleteText(cached_paper, dl.result),
                     download_result |-> dl.result,
                     function_calls |-> <<"download_paper">>],
                    [w EXCEPT !.files = dl.files,
                              !.paper_downloads =
                                  log_paper_download(@, user_id, paper_id,
                                      dl.result.file_path, dl.result.arxiv_id,
                                      dl.result.file_size, ReadingAt(env, 1))],
                    calls)
        ELSE Effect([response |-> DownloadFailedText(cached_paper, dl.result),
                     download_result |-> dl.result,
                     function_calls |-> <<"download_paper">>],
                    [w EXCEPT !.files = dl.files], calls)

\* the rows a LIMIT 10 query with ORDER BY ... DESC on the insertion time returns
RowLimit == 10

\* ORDER BY <time stamp> DESC over stamped = <<[at, row], ...>> in the order of
\* insertion, for the readings up to the k-th: the newest first, and the rows of
\* one second in the order of insertion, as SQLite's sorter leaves rows of equal key
RECURSIVE NewestFirst(_, _)
NewestFirst(stamped, k) ==
    IF k = 0 THEN <<>>
    ELSE SelectSeq(stamped, LAMBDA p : TimeRank(p.at) = k) \o NewestFirst(stamped, k - 1)

\* ORDER BY ... DESC LIMIT 10: the rows of the first ten
RecentRows(stamped) ==
    LET first == Take(NewestFirst(stamped, Len(Clock)), RowLimit)
    IN  [i \in 1..Len(first) |-> first[i].row]

\* get_user_search_history(user_id, limit=10)
get_user_search_history(tbl, user_id) ==
    LET rows == RowsOf(tbl, user_id)
    IN  RecentRows([i \in 1..Len(rows) |->
                       [at  |-> rows[i].timestamp,
                        row |-> [query |-> rows[i].query,
                                 search_type |-> rows[i].search_type,
                                 timestamp |-> rows[i].timestamp]]])

\* the dict get_user_downloads builds: the LEFT JOIN adds the cached title and
\* authors, NULL and [] when the paper is not cached
DownloadRow(w, row) ==
    [paper_id |-> row.paper_id, file_path |-> row.file_path,
     download_date |-> row.download_date,
     file_size |-> row.file_size, arxiv_id |-> row.arxiv_id,
     title |-> IF PaperRows(w.cached_papers, row.paper_id) # {}
               THEN (CHOOSE r \in PaperRows(w.cached_papers, row.paper_id) : TRUE).title
               ELSE NoText,
     authors |-> IF PaperRows(w.cached_papers, row.paper_id) # {}
                 THEN (CHOOSE r \in PaperRows(w.cached_papers, row.paper_id) : TRUE).authors
                 ELSE <<>>]

\* get_user_downloads(user_id, limit=10)
get_user_downloads(w, user_id) ==
    LET rows == RowsOf(w.paper_downloads, user_id)
    IN  RecentRows([i \in 1..Len(rows) |->
                       [at |-> rows[i].download_date, row |-> DownloadRow(w, rows[i])]])

RECURSIVE DownloadLines(_, _, _)
DownloadLines(w, downloads, i) ==
    IF i > Len(downloads) THEN ""
    ELSE ToString(i) \o ". **"
         \o (IF downloads[i].title # NoText THEN downloads[i].title ELSE "Unknown Title")
         \o "** (" \o DateOf(downloads[i].download_date) \o ")\n"
         \o "   Paper ID: '" \o downloads[i].paper_id \o "'\n"
         \o "   Size: "
         \o (IF downloads[i].file_size # 0 THEN FormatMB(downloads[i].file_size)
             ELSE "Unknown")
         \o " MB | Status: "
         \o (IF os_path_exists(w.files, downloads[i].file_path) THEN "yes" ELSE "no")
         \o "\n"
         \o (IF downloads[i].arxiv_id # NoText
             THEN "   arXiv: " \o downloads[i].arxiv_id \o "\n" ELSE "")
         \o "\n"
         \o DownloadLines(w, downloads, i + 1)

_handle_downloads_history_request(w, user_id, env) ==
    LET downloads == get_user_downloads(w, user_id)
    IN  IF Raises(env, 1)
        THEN Effect([response |-> "Error retrieving download history: " \o StoreError,
                     function_calls |-> <<"get_downloads">>], w, <<>>)
        ELSE IF downloads = <<>>
        THEN Effect([response |-> "You haven't downloaded any papers yet. Try searching for papers and then downloading them!",
                     function_calls |-> <<"get_downloads">>], w, <<>>)
        ELSE Effect([response |-> "**Your Downloaded Papers (" \o ToString(Len(downloads))
                                  \o " total):**\n\n" \o DownloadLines(w, downloads, 1),
                     downloads |-> downloads,
                     function_calls |-> <<"get_downloads">>], w, <<>>)

RECURSIVE HistoryLines(_, _)
HistoryLines(history, i) ==
    IF i > Len(history) THEN ""
    ELSE ToString(i) \o ". **" \o history[i].query \o "** ("
         \o DateOf(history[i].timestamp) \o ")\n"
         \o HistoryLines(history, i + 1)

_handle_history_request(w, user_id, env) ==
    LET history == get_user_search_history(w.search_history, user_id)
    IN  IF Raises(env, 1)
        THEN Effect([response |-> "Error retrieving search history: " \o StoreError], w, <<>>)
        ELSE IF history = <<>>
        THEN Effect([response |-> "You haven't made any searches yet. Try asking me to find some papers!"],
                    w, <<>>)
        ELSE Effect([response |-> "Here are your recent searches:\n\n"
                                  \o HistoryLines(history, 1),
                     function_calls |-> <<"get_search_history">>], w, <<>>)

\* row a comes before row b of the same user under ORDER BY interest_score DESC,
\* last_accessed DESC; rows equal in both come as SQLite reads them, through the
\* index of UNIQUE(user_id, topic), that is by topic
InterestBefore(a, b) ==
    \/ a.interest_score > b.interest_score
    \/ /\ a.interest_score = b.interest_score
       /\ TimeRank(a.last_accessed) > TimeRank(b.last_accessed)
    \/ /\ a.interest_score = b.interest_score
       /\ a.last_accessed = b.last_accessed
       /\ TextBefore(a.topic, b.topic)

\* the dicts of get_user_interests for the rows of one user, in that order
RECURSIVE ByScore(_)
ByScore(rows) ==
    IF rows = {} THEN <<>>
    ELSE LET top == CHOOSE t \in rows : \A o \in rows \ {t} : InterestBefore(t, o)
         IN  <<[topic |-> top.topic, score |-> top.interest_score,
                last_accessed |-> top.last_accessed]>>
             \o ByScore(rows \ {top})

\* get_user_interests(user_id), limit = 10
get_user_interests(tbl, user_id) ==
    Take(ByScore({r \in tbl : r.user_id = user_id}), RowLimit)

RECURSIVE InterestLines(_, _)
InterestLines(interests, i) ==
    IF i > Len(interests) THEN ""
    ELSE ToString(i) \o ". **" \o title(interests[i].topic) \o "** (searched "
         \o ToString(interests[i].score) \o " times)\n"
         \o InterestLines(interests, i + 1)

_handle_interests_request(w, user_id, env) ==
    LET interests == get_user_interests(w.user_interests, user_id)
    IN  IF Raises(env, 1)
        THEN Effect([response |-> "Error retrieving interests: " \o StoreError], w, <<>>)
        ELSE IF interests = <<>>
        THEN Effect([response |-> "I haven't identified your research interests yet. Search for some papers and I'll start tracking your interests!"],
                    w, <<>>)
        ELSE Effect([response |-> "Based on your searches, your research interests include:\n\n"
                                  \o InterestLines(interests, 1),
                     function_calls |-> <<"get_user_interests">>], w, <<>>)

_handle_general_chat(w, user_id, message, env) ==
    IF env.llm.raises
    THEN Effect([response |-> "Error in general chat: " \o ProviderError],
                w, <<<<"generate_content", "">>>>)
    ELSE Effect([response |-> env.llm.text, function_calls |-> <<"general_chat">>],
                w, <<<<"generate_content", "">>>>)

_handle_user_request(w, user_id, message, action, env) ==
    IF action = "download_paper" THEN _handle_download_request(w, user_id, message, env)
    ELSE IF action = "get_downloads" THEN _handle_downloads_history_request(w, user_id, env)
    ELSE IF action = "search_papers" THEN _handle_paper_search(w, user_id, message, env)
    ELSE IF action = "generate_summary" THEN _handle_summary_request(w, user_id, message, env)
    ELSE IF action = "get_history" THEN _handle_history_request(w, user_id, env)
    ELSE IF action = "get_interests" THEN _handle_interests_request(w, user_id, env)
    ELSE _handle_general_chat(w, user_id, message, env)

(***************************************************************************)
(* The conversation orchestrator: AcademicTutorAgent.process_message       *)
(***************************************************************************)
\* the append with a fault: the entry goes to the list of every user
Remember_Shared(mem, user_id, role, text) ==
    [u \in DOMAIN mem \cup {user_id} |->
        Append(IF u \in DOMAIN mem THEN mem[u] ELSE <<>>, [role |-> role, message |-> text])]

\* self.conversation_memory[user_id].append({"role": role, "message": text}), the
\* list being created on the user's first message
Remember(mem, user_id, role, text) ==
    LET old == IF user_id \in DOMAIN mem THEN mem[user_id] ELSE <<>>
    IN  [u \in DOMAIN mem \cup {user_id} |->
            IF u = user_id THEN Append(old, [role |-> role, message |-> text])
            ELSE mem[u]]

\* response_data.get("function_calls", [])
FunctionCallsOf(payload) ==
    IF "function_calls" \in DOMAIN payload THEN payload.function_calls ELSE <<>>

\* lines 41-52: the response is remembered and the exchange logged. The result is
\* [raises, error, payload, mem, w, chat, calls, action, handled]; raises tells that
\* an exception left the body of the try, with the state as it was then, and
\* handled is response_data, the dict the handler returned.
StoreResponse(mem, chat, user_id, message, env, action, eff) ==
    IF env.log
    THEN [raises |-> TRUE, error |-> StoreError, payload |-> EmptyDict,
          mem |-> Remember(mem, user_id, "assistant", eff.payload.response),
          w |-> eff.w, chat |-> chat, calls |-> eff.calls, action |-> action,
          handled |-> eff.payload]
    ELSE [raises |-> FALSE, error |-> "", payload |-> eff.payload,
          mem |-> Remember(mem, user_id, "assistant", eff.payload.response),
          w |-> eff.w,
          chat |-> log_chat_session(chat, user_id, message, eff.payload.response,
                                    FunctionCallsOf(eff.payload)),
          calls |-> eff.calls, action |-> action, handled |-> eff.payload]

\* lines 37-39: the intent is found and the request handled
HandleIntent(mem, w, chat, user_id, message, env, action) ==
    StoreResponse(mem, chat, user_id, message, env, action,
                  _handle_user_request(w, user_id, message, action, env))

\* lines 30-52, the body of the try
TryBody(mem, w, chat, user_id, message, env) ==
    HandleIntent(Remember(mem, user_id, "user", message), w, chat, user_id, message, env,
                 _analyze_user_intent(message))

\* what leaves process_message when nothing catches what the body raises
Uncaught(body) ==
    [payload |-> body.payload, raised |-> body.raises, mem |-> body.mem,
     w |-> body.w, chat |-> body.chat, calls |-> body.calls, action |-> body.action,
     handled |-> body.handled]

\* lines 54-56, the except clause: what the body raised becomes a payload
Caught(body) ==
    [payload |-> IF body.raises
                 THEN [response |-> "I encountered an error: " \o body.error,
                       error |-> TRUE]
                 ELSE body.payload,
     raised |-> FALSE, mem |-> body.mem,
     w |-> body.w, chat |-> body.chat, calls |-> body.calls, action |-> body.action,
     handled |-> body.handled]

\* process_message with a fault: there is no except clause around the body
process_message_NoCatch(mem, w, chat, user_id, message, env) ==
    Uncaught(TryBody(mem, w, chat, user_id, message, env))

\* process_message: [payload, raised, mem, w, chat, calls, action]; payload is the
\* dict returned, raised tells that an exception left process_message instead
process_message(mem, w, chat, user_id, message, env) ==
    Caught(TryBody(mem, w, chat, user_id, message, env))

(***************************************************************************)
(* State                                                                   *)
(***************************************************************************)
VARIABLES
    conversation_memory,  \* agent.conversation_memory: user_id -> list of entries
    cached_papers,        \* table cached_papers: its rows
    search_history,       \* table search_history, in insertion order
    user_interests,       \* table user_interests: its rows
    chat_sessions,        \* table chat_sessions, in insertion order
    paper_downloads,      \* table paper_downloads, in insertion order
    files,                \* the downloads directory: file_path -> [size, complete]
    trace,                \* history: one entry per process_message call
    message,              \* the message last given to the classifier
    action,               \* what the classifier made of it, "" before it ran
    tasks,                \* the process_message coroutines the event loop was given
    ready                 \* the event loop's queue of coroutines that can run

vars == <<conversation_memory, cached_papers, search_history, user_interests,
          chat_sessions, paper_downloads, files, trace, message, action, tasks, ready>>

loop_vars == <<tasks, ready>>

store_vars == <<conversation_memory, cached_papers, search_history, user_interests,
                chat_sessions, paper_downloads, files, trace>>

\* the store as the handlers see it
World == [cached_papers |-> cached_papers, search_history |-> search_history,
          user_interests |-> user_interests, paper_downloads |-> paper_downloads,
          files |-> files]

EmptyStore ==
    /\ conversation_memory = <<>>
    /\ cached_papers = {}
    /\ search_history = <<>>
    /\ user_interests = {}
    /\ chat_sessions = <<>>
    /\ paper_downloads = <<>>
    /\ tasks = <<>>
    /\ ready = <<>>
    /\ files = <<>>
    /\ trace = <<>>

(***************************************************************************)
(* Inputs                                                                  *)
(***************************************************************************)
UserOrder == <<"u1", "u2">>
Users == {UserOrder[k] : k \in 1..Len(UserOrder)}

\* the surroundings of a call when nothing goes wrong; fault marks the calls in
\* which something fails or comes back empty, now is the reading of the clock when
\* the call starts, and with tick 0 every statement of the call reads that reading
CalmEnv ==
    [llm     |-> [raises |-> FALSE, text |-> ChatReply],
     results |-> [raises |-> FALSE, papers |-> <<>>],
     summary |-> [raises |-> FALSE, text |-> "**Key Findings:** it works."],
     net     |-> [kind |-> "ok", size |-> PdfBytes, error |-> ""],
     store   |-> "ok",
     at      |-> 0,
     log     |-> FALSE,
     now     |-> Clock[1],
     tick    |-> 0,
     fault   |-> FALSE]

\* what a search finds
Found == <<Paper1, Paper2>>

\* the ways a call can go without a failure, by the intent of the message
CalmEnvs(m, intent) ==
    IF intent = "search_papers"
    THEN {[CalmEnv EXCEPT !.llm.text = ExtractionReply(m), !.results.papers = Found]}
    ELSE IF intent = "generate_summary"
    THEN {[CalmEnv EXCEPT !.summary.text = t] : t \in SummaryTexts}
    ELSE {CalmEnv}

Faulty(env) == [env EXCEPT !.fault = TRUE]

\* the handlers whose rows carry a time stamp: the search writes search_history and
\* user_interests rows, the download a paper_downloads row
ReadsClock(intent) == intent \in {"search_papers", "download_paper"}

\* the statements of a search that write a time stamp: log_search and one
\* update_user_interest per topic of the query the provider is asked to extract
StampsOfSearch(m) ==
    1 + Len(_extract_topics_from_query(ExtractQuery(ExtractionReply(m), m)))

\* the statements of a call at which the clock can pass to its next reading: from
\* the second one on (a clock that has passed before the first is a later now), and
\* none when now is the last reading; 0 is the clock that stays
Ticks(m, intent, k) ==
    {0} \cup (IF intent = "search_papers" /\ k < Len(Clock)
              THEN 2..StampsOfSearch(m) ELSE {})

\* envs at the readings of the clock a call can take when the latest reading so far
\* is the one of rank last: that one or a later one, the clock passing on or not
\* while the call runs. A call that writes no time stamp is given the latest reading.
Readings(m, intent, last) ==
    UNION {{<<k, t>> : t \in Ticks(m, intent, k)} :
              k \in last..(IF ReadsClock(intent) THEN Len(Clock) ELSE last)}

AtClock(envs, m, intent, last) ==
    {[env EXCEPT !.now = Clock[p[1]], !.tick = p[2]] :
        env \in envs, p \in Readings(m, intent, last)}

\* the calls on the store that the handler of a message makes at most: a search
\* caches each paper found, logs the search and updates one interest per topic; a
\* summary reads the paper and saves the summary (or lists the cache when the paper
\* is not there); a download reads the paper, looks up its arXiv id and logs the
\* download; the three listings read once; a chat makes none
StoreCalls(m, intent) ==
    IF intent = "search_papers" THEN Len(Found) + 1 + MaxTopics
    ELSE IF intent = "generate_summary" THEN 2
    ELSE IF intent = "download_paper" THEN 3
    ELSE IF intent = "general_chat" THEN 0
    ELSE 1

\* the surroundings in which the handler's calls on the store go well
Answering(m, intent) ==
    IF intent = "search_papers"
    THEN [CalmEnv EXCEPT !.llm.text = ExtractionReply(m), !.results.papers = Found]
    ELSE CalmEnv

\* the ways the providers and the network can fail the handler, or give it nothing
ProviderFaults(m, intent) ==
    IF intent = "search_papers"
    THEN {[CalmEnv EXCEPT !.llm.raises = TRUE],
          [CalmEnv EXCEPT !.llm.text = OffFormatReply, !.results.papers = Found],
          [CalmEnv EXCEPT !.llm.text = ExtractionReply(m)],
          [CalmEnv EXCEPT !.llm.text = ExtractionReply(m), !.results.raises = TRUE]}
    ELSE IF intent = "generate_summary"
    THEN {[CalmEnv EXCEPT !.summary.raises = TRUE],
          [CalmEnv EXCEPT !.summary.text = NoText]}
    ELSE IF intent = "download_paper"
    THEN {[CalmEnv EXCEPT !.net = [kind |-> "html", size |-> 0, error |-> ""]],
          [CalmEnv EXCEPT !.net = [kind |-> "timeout", size |-> 0, error |-> ""]],
          [CalmEnv EXCEPT !.net = [kind |-> "request_error", size |-> 0,
                                   error |-> "404 Client Error"]],
          [CalmEnv EXCEPT !.net = [kind |-> "stream_error", size |-> PartialBytes,
                                   error |-> "Connection broken"]],
          [CalmEnv EXCEPT !.net = [kind |-> "write_error", size |-> PartialBytes,
                                   error |-> "No space left on device"]],
          [CalmEnv EXCEPT !.net = [kind |-> "ok", size |-> SmallBytes, error |-> ""]]}
    ELSE IF intent = "general_chat"
    THEN {[CalmEnv EXCEPT !.llm.raises = TRUE]}
    ELSE {}

\* the surroundings in which the handler comes to every call on the store it can
\* make: nothing fails, or the extraction reply is off format and the search is
\* made with the message itself. In the others the handler has stopped before the
\* calls on the store that follow a provider (a provider that raised, an empty feed,
\* an empty summary, a download that failed), and a call on the store that comes
\* before a provider raises whatever the provider would have answered.
StoringEnvs(m, intent) ==
    {Answering(m, intent)}
    \cup {env \in ProviderFaults(m, intent) :
             /\ intent = "search_papers"
             /\ ~env.llm.raises /\ ~env.results.raises
             /\ env.results.papers # <<>>}

\* one of the calls the handler makes on the store raises (a raise ends the
\* handler, so no second call of its can)
StoreFaultsOf(envs, m, intent) ==
    {[env EXCEPT !.store = "handler", !.at = k] :
        env \in envs, k \in 1..StoreCalls(m, intent)}

\* the ways the store can fail the handler
StoreFaults(m, intent) == StoreFaultsOf(StoringEnvs(m, intent), m, intent)

\* log_chat_session raises as well, after the handler has returned
LogFails(envs) == {[env EXCEPT !.log = TRUE] : env \in envs}

\* the ways a call can go wrong. Three things can fail in a call: a provider or the
\* network, a call of the handler on the store, and log_chat_session after the
\* handler has returned. One of them fails, or two of them do.
FaultEnvs(m, intent) ==
    {Faulty(env) :
        env \in StoreFaults(m, intent) \cup ProviderFaults(m, intent)
                \cup LogFails({Answering(m, intent)}
                              \cup StoreFaultsOf({Answering(m, intent)}, m, intent)
                              \cup ProviderFaults(m, intent))}

\* bounds of the exploration: calls to process_message, and failures among them
MaxCalls  == 3
MaxFaults == 1

\* calls when nothing ever fails
MaxCalmCalls == 4

FaultsSoFar == Cardinality({i \in 1..Len(trace) : trace[i].env.fault})

(***************************************************************************)
(* Actions                                                                 *)
(***************************************************************************)
\* one call process_message(user_id, m) with the surroundings env. The handlers
\* never await anything that suspends, so a call runs from start to end without
\* another one in between. The trace entry keeps the arguments, the paper
\* reference in the message, the store as it was before the call, what the handler
\* and the call returned and the provider calls made.
ProcessMessage(user_id, m, env) ==
    \E r \in {process_message(conversation_memory, World, chat_sessions, user_id, m, env)} :
        /\ conversation_memory' = r.mem
        /\ cached_papers'   = r.w.cached_papers
        /\ search_history'  = r.w.search_history
        /\ user_interests'  = r.w.user_interests
        /\ paper_downloads' = r.w.paper_downloads
        /\ files'           = r.w.files
        /\ chat_sessions'   = r.chat
        /\ message' = m
        /\ action'  = r.action
        /\ trace' = Append(trace,
                       [user_id |-> user_id, message |-> m, action |-> r.action,
                        paper_id |-> PaperRefOf(m),
                        payload |-> r.payload, raised |-> r.raised, calls |-> r.calls,
                        handled |-> r.handled, env |-> env, before |-> World])
        /\ UNCHANGED loop_vars

\* Users differ by name only, so the users that have sent a message are taken to
\* be the first ones of UserOrder: the next sender is one of them or the next one
Senders == {trace[i].user_id : i \in 1..Len(trace)}
NextSenders ==
    {UserOrder[k] : k \in 1..(IF Cardinality(Senders) < Len(UserOrder)
                              THEN Cardinality(Senders) + 1 ELSE Len(UserOrder))}

\* the sender when one user talks to the agent
OneUser == {UserOrder[1]}

\* a call of one of senders during which nothing fails
CalmCall(senders) ==
    \E user_id \in senders, m \in SpecMessages :
        \E env \in CalmEnvs(m, _analyze_user_intent(m)) : ProcessMessage(user_id, m, env)

\* a call during which something fails
FaultyCall ==
    \E user_id \in OneUser, m \in SpecMessages :
        \E env \in FaultEnvs(m, _analyze_user_intent(m)) : ProcessMessage(user_id, m, env)

\* a call during which nothing fails
Chat ==
    /\ Len(trace) < MaxCalls
    /\ \E user_id \in OneUser, m \in SpecMessages :
           ProcessMessage(user_id, m, Answering(m, _analyze_user_intent(m)))

ChatWithFault ==
    /\ Len(trace) < MaxCalls
    /\ FaultsSoFar < MaxFaults
    /\ FaultyCall

Init ==
    /\ EmptyStore
    /\ message = ""
    /\ action = ""

Next == Chat \/ ChatWithFault

\* the agent talking to one user, with providers, network and store that may fail
Spec == Init /\ [][Next]_vars

ChatCalm ==
    /\ Len(trace) < MaxCalmCalls
    /\ CalmCall(NextSenders)

\* the failures of the store among the ways a call can go wrong: a call of the
\* handler on the store raises, or log_chat_session does, or both
StoreFaultEnvs(m, intent) ==
    {Faulty(env) :
        env \in StoreFaultsOf({Answering(m, intent)}, m, intent)
                \cup LogFails({Answering(m, intent)}
                              \cup StoreFaultsOf({Answering(m, intent)}, m, intent))}

\* calls of two users, and failures of the store among them
MaxPairCalls  == 2
MaxPairFaults == 1

\* the reading of the clock when a call ends
EndReading(env) == IF env.tick # 0 THEN LaterReading(env.now) ELSE env.now

\* the rank of the clock reading at the end of the latest call
LastReading == IF trace = <<>> THEN 1 ELSE TimeRank(EndReading(trace[Len(trace)].env))

\* the statements of the handler that write their time stamp when user_id sends m
\* in env with the store w. A search (lines 240-265) writes none when the language
\* model or the search provider raises or no paper is found; else it makes its
\* calls on the store in the order cache_paper for each paper, log_search,
\* update_user_interest for each topic, the last two kinds writing one time stamp
\* each, and the call that raises writes none. A download writes the time stamp of
\* its record when log_paper_download is reached and returns. The other handlers
\* write none.
StampsReached(w, user_id, m, intent, env) ==
    IF intent = "search_papers"
    THEN LET papers == env.results.papers
             topics == _extract_topics_from_query(ExtractQuery(env.llm.text, m))
             stores == Len(papers) + 1 + Len(topics)
             done   == IF env.store = "handler" /\ env.at \in 1..stores
                       THEN env.at - 1 ELSE stores
         IN  IF env.llm.raises \/ env.results.raises \/ papers = <<>> THEN 0
             ELSE IF done > Len(papers) THEN done - Len(papers)
             ELSE 0
    ELSE IF intent = "download_paper"
    THEN Len(_handle_download_request(w, user_id, m, env).w.paper_downloads)
           - Len(w.paper_downloads)
    ELSE 0

\* envs at the readings of the clock of a call, the clock passing on at a
\* statement the call reaches: a clock that passes on after the last time stamp
\* of a call is the later reading of the next call
AtClockReached(envs, w, user_id, m, intent, last) ==
    {env \in AtClock(envs, m, intent, last) :
        env.tick = 0 \/ env.tick <= StampsReached(w, user_id, m, intent, env)}

\* a call of either user during which nothing fails, in the same second as the
\* call before it or later, the clock passing on or not while it runs
ChatPair ==
    /\ Len(trace) < MaxPairCalls
    /\ \E user_id \in NextSenders, m \in SpecMessages :
           \E intent \in {_analyze_user_intent(m)} :
               \E env \in AtClock({Answering(m, intent)}, m, intent, LastReading) :
                   ProcessMessage(user_id, m, env)

\* a call of either user during which the store raises, what was written before
\* staying written
ChatPairWithFault ==
    /\ Len(trace) < MaxPairCalls
    /\ FaultsSoFar < MaxPairFaults
    /\ \E user_id \in NextSenders, m \in SpecMessages :
           \E intent \in {_analyze_user_intent(m)} :
               \E env \in AtClockReached(StoreFaultEnvs(m, intent), World, user_id, m,
                                         intent, LastReading) :
                   ProcessMessage(user_id, m, env)

NextPair == ChatPair \/ ChatPairWithFault

\* the agent talking to two users, with a clock that passes on and a store that
\* may fail
SpecPair == Init /\ [][NextPair]_vars

NextCalm == ChatCalm

\* the agent when nothing ever fails
SpecCalm == Init /\ [][NextCalm]_vars

\* calls when requests of every kind are sent, and failures among them
MaxDeskCalls  == 3
MaxDeskFaults == 1

\* a call with a request of any kind, nothing failing, in the same second as the
\* call before it or later, the clock passing on or not while it runs
ChatDesk ==
    /\ Len(trace) < MaxDeskCalls
    /\ \E user_id \in OneUser, m \in DeskMessages :
           \E intent \in {_analyze_user_intent(m)} :
               \E env \in AtClock(CalmEnvs(m, intent), m, intent, LastReading) :
                   ProcessMessage(user_id, m, env)

\* the same with one thing or two failing during the call
ChatDeskWithFault ==
    /\ Len(trace) < MaxDeskCalls
    /\ FaultsSoFar < MaxDeskFaults
    /\ \E user_id \in OneUser, m \in DeskMessages :
           \E intent \in {_analyze_user_intent(m)} :
               \E env \in AtClock(FaultEnvs(m, intent), m, intent, LastReading) :
                   ProcessMessage(user_id, m, env)

NextDesk == ChatDesk \/ ChatDeskWithFault

\* the agent answering requests of every kind, with a clock that passes on and
\* providers, network and store that may fail
SpecDesk == Init /\ [][NextDesk]_vars

\* what a search finds when the feed has an entry without a title as well
FoundAll == <<Paper1, Paper2, Paper3>>

\* the ways a call of these requests can go without a failure
RefEnvs(m, intent) ==
    IF intent = "search_papers"
    THEN {[CalmEnv EXCEPT !.llm.text = ExtractionReply(m), !.results.papers = FoundAll]}
    ELSE CalmEnvs(m, intent)

\* calls when papers are named in every way
MaxRefCalls == 3

\* a call with a request that names a paper, nothing failing
ChatRefs ==
    /\ Len(trace) < MaxRefCalls
    /\ \E user_id \in NextSenders, m \in RefMessages :
           \E env \in RefEnvs(m, _analyze_user_intent(m)) :
               ProcessMessage(user_id, m, env)

NextRefs == ChatRefs

\* the agent answering requests that name papers, nothing failing
SpecRefs == Init /\ [][NextRefs]_vars

(***************************************************************************)
(* The calls as coroutines of one event loop. main.py has one agent and    *)
(* chat_endpoint awaits agent.process_message for every request, so the    *)
(* calls of all requests are coroutines of the server's event loop. A      *)
(* coroutine runs until it suspends or returns; then the loop runs the     *)
(* next one of its queue.                                                  *)
(***************************************************************************)
\* the places of a call: the statement it executes next
Places == {"append_user", "dispatch", "append_assistant", "log", "done"}

\* the functions of the agent defined with async def (tutor_agent.py, lines 28,
\* 99, 117, 187, 224, 290, 346, 366 and 386)
Coroutines ==
    {"process_message", "_handle_user_request", "_handle_download_request",
     "_handle_downloads_history_request", "_handle_paper_search",
     "_handle_summary_request", "_handle_history_request",
     "_handle_interests_request", "_handle_general_chat"}

\* _handle_user_request, lines 102-115: the handler of an intent
HandlerOf(intent) ==
    IF intent = "download_paper" THEN "_handle_download_request"
    ELSE IF intent = "get_downloads" THEN "_handle_downloads_history_request"
    ELSE IF intent = "search_papers" THEN "_handle_paper_search"
    ELSE IF intent = "generate_summary" THEN "_handle_summary_request"
    ELSE IF intent = "get_history" THEN "_handle_history_request"
    ELSE IF intent = "get_interests" THEN "_handle_interests_request"
    ELSE "_handle_general_chat"

\* Awaited with a fault: the handlers that ask the language model await its answer
Awaited_Provider(coroutine, intent) ==
    IF coroutine = "process_message" THEN {"_handle_user_request"}
    ELSE IF coroutine = "_handle_user_request" THEN {HandlerOf(intent)}
    ELSE IF coroutine \in {"_handle_paper_search", "_handle_summary_request",
                           "_handle_general_chat"}
    THEN {"generate_content_async"}
    ELSE {}

\* what a coroutine awaits while it serves a request of an intent: process_message
\* awaits _handle_user_request (line 39), which awaits the handler of the intent
\* (lines 103-115); the handlers (lines 117-400) hold no await: they call the
\* providers, the network and the store with blocking calls
Awaited(coroutine, intent) ==
    IF coroutine = "process_message" THEN {"_handle_user_request"}
    ELSE IF coroutine = "_handle_user_request" THEN {HandlerOf(intent)}
    ELSE {}

\* a coroutine gives the control back to the loop while it serves a request of an
\* intent: the await of a coroutine runs that coroutine in the same turn, so the
\* control goes back only where something else is awaited (a future, a sleep, a
\* socket), in the coroutine or in one it awaits
RECURSIVE GivesUpControl(_, _)
GivesUpControl(coroutine, intent) ==
    \E awaited \in Awaited(coroutine, intent) :
        awaited \notin Coroutines \/ GivesUpControl(awaited, intent)

\* the call gives up the control at the statement at place: the await of line 39
\* is the only one of process_message
Suspends(place, intent) == place = "dispatch" /\ GivesUpControl("process_message", intent)

\* requests the loop can be given
LoopMessages == {SearchMessage, SummaryMessage, HistoryMessage, HelloMessage}

\* requests given to the loop
MaxTasks == 3

TaskSenders == {tasks[i].user_id : i \in 1..Len(tasks)}
NextTaskSenders ==
    {UserOrder[k] : k \in 1..(IF Cardinality(TaskSenders) < Len(UserOrder)
                              THEN Cardinality(TaskSenders) + 1 ELSE Len(UserOrder))}

\* the queue after the first coroutine executed the statement at place and goes on
\* at next: it leaves the queue when it returned, goes to its end when it
\* suspended, and keeps running otherwise
Requeue(place, next, intent) ==
    IF next = "done" THEN Tail(ready)
    ELSE IF Suspends(place, intent) THEN Append(Tail(ready), Head(ready))
    ELSE ready

\* the rank of the clock reading of the call given to the loop last
LastTaskReading ==
    IF tasks = <<>> THEN 1 ELSE TimeRank(EndReading(tasks[Len(tasks)].env))

\* chat_endpoint: a request arrives and its process_message call joins the queue,
\* with the surroundings its handler will find. The calls run in the order they
\* were given to the loop, so their clock readings are in that order too.
Submit ==
    /\ Len(tasks) < MaxTasks
    /\ \E user_id \in NextTaskSenders, m \in LoopMessages :
         \E intent \in {_analyze_user_intent(m)} :
           \E env \in AtClock(CalmEnvs(m, intent), m, intent, LastTaskReading) :
             /\ tasks' = Append(tasks, [user_id |-> user_id, message |-> m, env |-> env,
                                        place |-> "append_user", action |-> "",
                                        handled |-> EmptyDict])
             /\ ready' = Append(ready, Len(tasks) + 1)
    /\ UNCHANGED <<store_vars, message, action>>

\* lines 31-34: the user entry is appended to the transcript
AppendUser ==
    /\ ready # <<>>
    /\ tasks[Head(ready)].place = "append_user"
    /\ conversation_memory' = Remember(conversation_memory, tasks[Head(ready)].user_id,
                                       "user", tasks[Head(ready)].message)
    /\ tasks' = [tasks EXCEPT ![Head(ready)].place = "dispatch"]
    /\ ready' = Requeue("append_user", "dispatch", tasks[Head(ready)].action)
    /\ UNCHANGED <<cached_papers, search_history, user_interests, chat_sessions,
                   paper_downloads, files, trace, message, action>>

\* lines 37-39: the intent is found and the handler awaited
Dispatch ==
    /\ ready # <<>>
    /\ tasks[Head(ready)].place = "dispatch"
    /\ \E intent \in {_analyze_user_intent(tasks[Head(ready)].message)} :
         \E eff \in {_handle_user_request(World, tasks[Head(ready)].user_id,
                                          tasks[Head(ready)].message, intent,
                                          tasks[Head(ready)].env)} :
           /\ cached_papers'   = eff.w.cached_papers
           /\ search_history'  = eff.w.search_history
           /\ user_interests'  = eff.w.user_interests
           /\ paper_downloads' = eff.w.paper_downloads
           /\ files'           = eff.w.files
           /\ tasks' = [tasks EXCEPT ![Head(ready)].place = "append_assistant",
                                     ![Head(ready)].action = intent,
                                     ![Head(ready)].handled = eff.payload]
           /\ ready' = Requeue("dispatch", "append_assistant", intent)
    /\ UNCHANGED <<conversation_memory, chat_sessions, trace, message, action>>

\* line 42: the assistant entry is appended to the transcript
AppendAssistant ==
    /\ ready # <<>>
    /\ tasks[Head(ready)].place = "append_assistant"
    /\ conversation_memory' = Remember(conversation_memory, tasks[Head(ready)].user_id,
                                       "assistant", tasks[Head(ready)].handled.response)
    /\ tasks' = [tasks EXCEPT ![Head(ready)].place = "log"]
    /\ ready' = Requeue("append_assistant", "log", tasks[Head(ready)].action)
    /\ UNCHANGED <<cached_papers, search_history, user_interests, chat_sessions,
                   paper_downloads, files, trace, message, action>>

\* lines 45-52: the exchange is logged and the call returns
LogChat ==
    /\ ready # <<>>
    /\ tasks[Head(ready)].place = "log"
    /\ chat_sessions' = log_chat_session(chat_sessions, tasks[Head(ready)].user_id,
                                         tasks[Head(ready)].message,
                                         tasks[Head(ready)].handled.response,
                                         FunctionCallsOf(tasks[Head(ready)].handled))
    /\ tasks' = [tasks EXCEPT ![Head(ready)].place = "done"]
    /\ ready' = Requeue("log", "done", tasks[Head(ready)].action)
    /\ UNCHANGED <<conversation_memory, cached_papers, search_history, user_interests,
                   paper_downloads, files, trace, message, action>>

NextLoop == Submit \/ AppendUser \/ Dispatch \/ AppendAssistant \/ LogChat

\* the first coroutine of the queue is about to call its handler
DispatchReady == ready # <<>> /\ tasks[Head(ready)].place = "dispatch"

\* the loop runs the first coroutine of its queue: no statement that can be
\* executed waits forever. For the handler call this is said by its place, which
\* only the call itself leaves.
LoopRuns ==
    /\ WF_vars(AppendUser)
    /\ []<>(~DispatchReady)
    /\ WF_vars(AppendAssistant)
    /\ WF_vars(LogChat)

\* the agent behind the server's event loop
SpecLoop == Init /\ [][NextLoop]_vars /\ LoopRuns

(***************************************************************************)
(* The classifier on its own: messages put together from the words its     *)
(* rules look at                                                           *)
(***************************************************************************)
Fragments ==
    <<"Summarize", "summarize", "summary", "explain", "find", "search", "research",
      "paper", "paper_50af359f", "PAPER_50AF359F", "paper_50af359f1", "paper_50af359",
      "download", "Download", "get pdf", "save paper", "my downloads",
      "downloaded papers", "show downloads", "history", "previous", "past searches",
      "interests", "topics", "my research", "hello">>

\* fragments in a message
MaxWords == 3

\* the messages of at most k fragments, in the order of Fragments, from first on
RECURSIVE MessagesFrom(_, _)
MessagesFrom(first, k) ==
    IF k = 0 THEN {}
    ELSE UNION {{Fragments[i]} \cup {Fragments[i] \o " " \o r : r \in MessagesFrom(i + 1, k - 1)} :
                   i \in first..Len(Fragments)}

\* the example queries of src/app.py, and messages that set one rule against another
ExampleMessages ==
    {"Find me 3 papers about federated learning in 2022",
     "Can you summarize the first one?",
     "Show me my previous searches on AI topics",
     "summarize my search papers",
     "explain this research",
     "what are my interests",
     ""}

IntentMessages == MessagesFrom(1, MaxWords) \cup ExampleMessages

\* action = self._analyze_user_intent(message)
Analyze ==
    /\ action = ""
    /\ action' = _analyze_user_intent(message)
    /\ UNCHANGED <<store_vars, message, loop_vars>>

InitIntent ==
    /\ EmptyStore
    /\ message \in IntentMessages
    /\ action = ""

NextIntent == Analyze

SpecIntent == InitIntent /\ [][NextIntent]_vars

(***************************************************************************)
(* The classifier on messages with letters outside ASCII, as the chat      *)
(* endpoint takes them from the JSON body of a request                     *)
(***************************************************************************)
\* words with a letter whose upper case is a letter of ASCII and whose lower case
\* is not (dotless i, long s, the ligature fi), with the capital I with dot above,
\* with a letter without a case pair (y with diaeresis in upper case is outside
\* ASCII too) and with the backquote
OddWords ==
    <<<<104, 305, 115, 116, 111, 114, 121>>,          \* h, dotless i, s t o r y
      <<383, 101, 97, 114, 99, 104>>,                 \* long s, e a r c h
      <<64257, 110, 100>>,                            \* ligature fi, n d
      <<101, 120, 112, 108, 97, 305, 110>>,           \* e x p l a, dotless i, n
      <<304, 110, 116, 101, 114, 101, 115, 116, 115>>, \* I with dot above, n t e r e s t s
      <<116, 111, 112, 305, 99, 115>>,                \* t o p, dotless i, c s
      <<255, 32, 100, 111, 119, 110, 108, 111, 97, 100>>, \* y with diaeresis, download
      <<96, 104, 101, 108, 108, 111, 96>>>>           \* hello between backquotes

PlainWords ==
    <<"summarize", "Explain", "research", "paper_50af359f", "my downloads",
      "History", "topics", "hello">>

\* the blank between two words
Blank == <<32>>

\* an odd word alone, or with a plain word before or after it
CaseMessages ==
    {OddWords[i] : i \in 1..Len(OddWords)}
    \cup {OddWords[i] \o Blank \o Points(PlainWords[j]) :
             i \in 1..Len(OddWords), j \in 1..Len(PlainWords)}
    \cup {Points(PlainWords[j]) \o Blank \o OddWords[i] :
             i \in 1..Len(OddWords), j \in 1..Len(PlainWords)}

InitCase ==
    /\ EmptyStore
    /\ message \in CaseMessages
    /\ action = ""

SpecCase == InitCase /\ [][NextIntent]_vars

(***************************************************************************)
(* Properties                                                              *)
(***************************************************************************)
Calls == 1..Len(trace)

\* how often entry i called the provider operation name with argument arg
CallCount(i, name, arg) ==
    Cardinality({k \in 1..Len(trace[i].calls) : trace[i].calls[k] = <<name, arg>>})

PaperIds == {Paper1.id, Paper2.id}

\* the store and the downloads directory after entry i
After(i) == IF i < Len(trace) THEN trace[i + 1].before ELSE World

\* the path in the downloads directory that the download of entry i writes to: the
\* one made of the arXiv id in the paper's row
TargetPath(i) ==
    DownloadPath(_get_arxiv_id_from_paper_id(trace[i].before.cached_papers,
                                             trace[i].paper_id, FALSE))

\* entry i is a summary request for paper p that reached the summary handler's return
SummaryRequest(i, p) ==
    /\ trace[i].action = "generate_summary"
    /\ trace[i].paper_id = p

\* C1, first half: for every paper identifier the provider's summarize operation is
\* called at most once over the whole sequence of requests
C1_CalledAtMostOnce ==
    \A p \in PaperIds :
        Cardinality({i \in Calls : CallCount(i, "generate_summary", p) > 0}) <= 1

\* C1: for every paper identifier, over any sequence of search, summary and download
\* requests from any users, the provider's summarize operation is called at most
\* once, and every summary request after the first one that generated a summary
\* makes no provider call (it is served from the stored summary)
C1_SummarizedAtMostOnce ==
    /\ C1_CalledAtMostOnce
    /\ \A p \in PaperIds : \A i, j \in Calls :
          (/\ i < j
           /\ SummaryRequest(i, p) /\ CallCount(i, "generate_summary", p) > 0
           /\ "summary" \in DOMAIN trace[i].payload
           /\ trace[i].payload.summary # NoText
           /\ SummaryRequest(j, p))
          => CallCount(j, "generate_summary", p) = 0

\* entries i and i+1 are two summary requests in a row for the same paper, which
\* is in the store with title and abstract
SummaryTwice(i) ==
    /\ i + 1 <= Len(trace)
    /\ trace[i].action = "generate_summary" /\ trace[i + 1].action = "generate_summary"
    /\ trace[i].paper_id = trace[i + 1].paper_id
    /\ PaperRows(trace[i].before.cached_papers, trace[i].paper_id) # {}
    /\ get_cached_paper(trace[i].before.cached_papers, trace[i].paper_id).title # NoText
    /\ get_cached_paper(trace[i].before.cached_papers, trace[i].paper_id).abstract # NoText

\* the two calls made exactly one provider call and the handler of the second
\* returned the summary text the handler of the first returned
OneCallSameText(i) ==
    /\ CallCount(i, "generate_summary", trace[i].paper_id)
         + CallCount(i + 1, "generate_summary", trace[i].paper_id) = 1
    /\ "summary" \in DOMAIN trace[i].handled
    /\ "summary" \in DOMAIN trace[i + 1].handled
    /\ trace[i + 1].handled.summary = trace[i].handled.summary

\* C2: calling the summary handler twice on the same paper identifier (paper in
\* the store with title and abstract) performs exactly one provider call and the
\* second call returns the text the first returned
C2_TwiceOneCall_AsStated ==
    \A i \in Calls : SummaryTwice(i) => OneCallSameText(i)

\* the successful searches of user_id so far: the rows of search_history
SearchesOf(user_id) == RowsOf(search_history, user_id)

\* the topics of a sequence, as a set
TopicSet(topics) == {topics[k] : k \in 1..Len(topics)}

\* C3: repeating the same search query N times for one user, each search returning
\* at least one paper, leaves an interest count of exactly N for each topic derived
\* from the query, the derived topics being at most 3
C3_InterestCountIsN ==
    \A u \in Users :
        LET rows == SearchesOf(u)
        IN  (rows # <<>> /\ \A k \in 1..Len(rows) : rows[k].query = rows[1].query)
            => LET topics == _extract_topics_from_query(rows[1].query)
               IN  /\ Len(topics) <= MaxTopics
                   /\ \A t \in TopicSet(topics) :
                         \E r \in InterestRows(user_interests, u, t) :
                             r.interest_score = Len(rows)

\* entry j is a download request for a paper of the store whose target file is in
\* the downloads directory before the call
DownloadOfExisting(j) ==
    /\ trace[j].action = "download_paper"
    /\ PaperRows(trace[j].before.cached_papers, trace[j].paper_id) # {}
    /\ os_path_exists(trace[j].before.files, TargetPath(j))

\* the handler of entry j returned a download result with success true and
\* already_existed true
ReportsExisting(j) ==
    /\ "download_result" \in DOMAIN trace[j].handled
    /\ trace[j].handled.download_result.success
    /\ trace[j].handled.download_result.already_existed

\* C4 as stated: downloading a paper identifier when the target file already exists
\* in the downloads directory performs no network fetch and returns a result with
\* success true and already_existed true
C4_ExistingFileNotFetched_AsStated ==
    \A j \in Calls :
        DownloadOfExisting(j)
        => /\ CallCount(j, "requests.get", trace[j].paper_id) = 0
           /\ ReportsExisting(j)

\* C4: downloading a paper identifier when the target file already exists in the
\* downloads directory performs no network fetch and leaves the directory as it
\* is, whatever fails during the call; it returns a result with success true and
\* already_existed true when the store answers the handler, the failure "Could not
\* find arXiv ID" when the lookup of the arXiv id raises, and the text of a store
\* error when the reading of the paper or the logging of the download raises
C4_ExistingFileNotFetched ==
    \A j \in Calls :
        DownloadOfExisting(j)
        => /\ trace[j].calls = <<>>
           /\ After(j).files = trace[j].before.files
           /\ trace[j].env.store = "ok" => ReportsExisting(j)
           /\ Raises(trace[j].env, 2)
              => /\ "download_result" \in DOMAIN trace[j].handled
                 /\ ~trace[j].handled.download_result.success
                 /\ trace[j].handled.download_result.error
                      = "Could not find arXiv ID for this paper. Make sure the paper is from arXiv."
           /\ (Raises(trace[j].env, 1) \/ Raises(trace[j].env, 3))
              => /\ "download_result" \notin DOMAIN trace[j].handled
                 /\ trace[j].handled.response = "Error downloading paper: " \o StoreError

\* a second download of a paper, the first one having fetched the file
C4_Witness ==
    \E i, j \in Calls :
        /\ i < j
        /\ trace[i].action = "download_paper"
        /\ trace[i].message = trace[j].message
        /\ CallCount(i, "requests.get", trace[i].paper_id) = 1
        /\ DownloadOfExisting(j)
        /\ ReportsExisting(j)
        /\ trace[j].calls = <<>>

\* the classifier has run on message
Analyzed == action # ""

\* the message holds a paper reference and the word "summarize"
RefAndSummarize == PaperRefSearch(message) /\ Contains(message, "summarize")

\* C5 as stated: every message with a paper reference and "summarize" is classified
\* generate_summary
C5_RefSummarize_AsStated ==
    (Analyzed /\ RefAndSummarize) => action = "generate_summary"

\* C5: every message with a paper reference and "summarize" is never classified
\* search_papers, and is classified generate_summary when it holds none of
\* "download", "get pdf", "save paper" in any letter case
C5_RefSummarize ==
    (Analyzed /\ RefAndSummarize)
    => /\ action # "search_papers"
       /\ ~AnyKeyword(DownloadKeywords, lower(message)) => action = "generate_summary"

\* a message with a reference, "summarize" and "find", classified generate_summary
C5_Witness ==
    /\ Analyzed /\ RefAndSummarize
    /\ Contains(message, "find") /\ Contains(message, "paper")
    /\ action = "generate_summary"

\* C6: every message that contains "download" and none of "my downloads",
\* "downloaded papers", "show downloads" is classified download_paper
C6_DownloadWins ==
    (/\ Analyzed
     /\ Contains(lower(message), "download")
     /\ ~AnyKeyword(DownloadsKeywords, lower(message)))
    => action = "download_paper"

\* a message with "download" and a summary keyword, classified download_paper
C6_Witness ==
    /\ Analyzed
    /\ Contains(message, "download") /\ Contains(message, "summarize")
    /\ ~AnyKeyword(DownloadsKeywords, lower(message))
    /\ action = "download_paper"

\* C7 as stated: "summarize my search papers" is classified generate_summary
C7_SummarizeMySearch_AsStated ==
    (Analyzed /\ message = "summarize my search papers") => action = "generate_summary"

\* C7: "summarize my search papers" is classified search_papers: it holds "search",
\* which shuts the summary-keyword rule out
C7_SummarizeMySearch ==
    (Analyzed /\ message = "summarize my search papers")
    => /\ ~IsSummaryIntent(lower(message))
       /\ action = "search_papers"

\* the classifier has run on "summarize my search papers"
C7_Witness ==
    /\ message = "summarize my search papers"
    /\ action = "search_papers"

\* every occurrence of "search" in ml is the end of an occurrence of "research"
SearchOnlyInResearch(ml) ==
    \A i \in 1..Len(ml) :
        (i + 5 <= Len(ml) /\ SubSeq(ml, i, i + 5) = "search")
        => (i > 2 /\ SubSeq(ml, i - 2, i + 5) = "research")

\* C8: a message with a summary keyword and "research", with no other occurrence of
\* "search", without "find", without a download keyword and without a paper
\* reference is classified generate_summary
C8_ResearchNotExcluded ==
    (/\ Analyzed
     /\ AnyKeyword(SummaryKeywords, lower(message))
     /\ Contains(lower(message), "research")
     /\ SearchOnlyInResearch(lower(message))
     /\ ~Contains(lower(message), "find")
     /\ ~AnyKeyword(DownloadKeywords, lower(message))
     /\ ~AnyKeyword(DownloadsKeywords, lower(message))
     /\ ~PaperRefSearch(lower(message)))
    => action = "generate_summary"

\* C9: the classifier returns one intent of the closed set for every message, and
\* the result does not depend on the letter case of the message: it is the same
\* for the message in upper case and in lower case
C9_ClosedAndCaseBlind ==
    Analyzed
    => /\ action \in Intents
       /\ _analyze_user_intent(upper(message)) = action
       /\ _analyze_user_intent(lower(message)) = action

\* C10: process_message never lets an exception out: it returns a payload with a
\* response text, whatever fails during the call, and a failure that reaches it is
\* returned as a response beginning "I encountered an error:" with error true
C10_NoExceptionEscapes ==
    \A i \in Calls :
        /\ ~trace[i].raised
        /\ "response" \in DOMAIN trace[i].payload
        /\ trace[i].env.log
           => /\ Len(trace[i].payload.response) >= 24
              /\ SubSeq(trace[i].payload.response, 1, 24) = "I encountered an error: "
              /\ "error" \in DOMAIN trace[i].payload
              /\ trace[i].payload.error

\* a search that found papers and stored them, its query and its topics, and whose
\* log_chat_session raised then
C10_Witness ==
    \E i \in Calls :
        /\ trace[i].env.log
        /\ trace[i].action = "search_papers"
        /\ "papers" \in DOMAIN trace[i].handled
        /\ \A k \in 1..Len(trace[i].handled.papers) :
               PaperRows(After(i).cached_papers, trace[i].handled.papers[k].id) # {}
        /\ Len(After(i).search_history) = Len(trace[i].before.search_history) + 1
        /\ After(i).user_interests # trace[i].before.user_interests
        /\ ~trace[i].raised
        /\ trace[i].payload.error

\* entry i is a summary request naming a paper identifier that has no row in
\* cached_papers before the call
SummaryOfUnknown(i) ==
    /\ trace[i].action = "generate_summary"
    /\ trace[i].paper_id # NoText
    /\ PaperRows(trace[i].before.cached_papers, trace[i].paper_id) = {}

\* entry i made no summarization provider call and left the paper, search-history,
\* interest and download tables as they were
NoCallNoWrite(i) ==
    /\ trace[i].calls = <<>>
    /\ After(i).cached_papers = trace[i].before.cached_papers
    /\ After(i).search_history = trace[i].before.search_history
    /\ After(i).user_interests = trace[i].before.user_interests
    /\ After(i).paper_downloads = trace[i].before.paper_downloads

\* C11 as stated: a summary request whose paper identifier is not in the paper store
\* returns the not-found message, makes no summarization provider call and writes
\* nothing to the paper, search-history, interest and download tables
C11_UnknownPaperNotFound_AsStated ==
    \A i \in Calls :
        SummaryOfUnknown(i)
        => /\ trace[i].handled.response = SummaryNotFoundText(trace[i].paper_id)
           /\ NoCallNoWrite(i)

\* C11: a summary request whose paper identifier is not in the paper store makes no
\* summarization provider call and writes nothing to the paper, search-history,
\* interest and download tables, whatever fails during the call; it returns the
\* not-found message when the store answers the handler's two readings (of the
\* paper and of the identifiers held), and the text of a store error when one of
\* them raises
C11_UnknownPaperNotFound ==
    \A i \in Calls :
        SummaryOfUnknown(i)
        => /\ NoCallNoWrite(i)
           /\ trace[i].handled.response =
                 IF Raises(trace[i].env, 1) \/ Raises(trace[i].env, 2)
                 THEN "Error generating summary: " \o StoreError
                 ELSE SummaryNotFoundText(trace[i].paper_id)

\* a summary request for a paper that is not stored, answered with the not-found
\* message, and one during which the listing of the identifiers held raised
C11_Witness ==
    \E i, j \in Calls :
        /\ SummaryOfUnknown(i)
        /\ trace[i].env.store = "ok"
        /\ trace[i].handled.response = SummaryNotFoundText(trace[i].paper_id)
        /\ trace[i].calls = <<>>
        /\ SummaryOfUnknown(j)
        /\ Raises(trace[j].env, 2)
        /\ trace[j].handled.response = "Error generating summary: " \o StoreError
        /\ NoCallNoWrite(j)

\* the interest count of (user_id, topic) in tbl, 0 when there is no row
ScoreOf(tbl, user_id, topic) ==
    IF InterestRows(tbl, user_id, topic) = {} THEN 0
    ELSE (CHOOSE r \in InterestRows(tbl, user_id, topic) : TRUE).interest_score

\* how often topic occurs in a sequence of topics
Occurrences(topics, topic) ==
    Cardinality({k \in 1..Len(topics) : topics[k] = topic})

\* entry i logged a search
LoggedSearch(i) == Len(After(i).search_history) = Len(trace[i].before.search_history) + 1

\* the topics whose interest entry i updated, one update each: a call that logs a
\* search updates the topics derived from the logged query, in their order, up to
\* the update in which the store raises
UpdatedTopics(i) ==
    LET topics == _extract_topics_from_query(
                      After(i).search_history[Len(After(i).search_history)].query)
        before == Len(trace[i].env.results.papers) + 1
    IN  IF ~LoggedSearch(i) THEN <<>>
        ELSE IF trace[i].env.store = "handler" /\ trace[i].env.at > before
        THEN Take(topics, trace[i].env.at - before - 1)
        ELSE topics

\* the updates of (user_id, topic) that entry i made
UpdatesIn(i, user_id, topic) ==
    IF trace[i].user_id = user_id THEN Occurrences(UpdatedTopics(i), topic) ELSE 0

\* at most one interest row per (user, topic) pair
OneRowPerPair ==
    \A r1, r2 \in user_interests :
        (r1.user_id = r2.user_id /\ r1.topic = r2.topic) => r1 = r2

\* a pair that had a row before entry i has one now, with a count that is not lower
NeverLower(i) ==
    \A r \in trace[i].before.user_interests :
        ScoreOf(user_interests, r.user_id, r.topic) >= r.interest_score

\* the count of a pair after entry i is its count before plus one for every update
\* of the pair that entry i made
CountsUp(i) ==
    \A r \in After(i).user_interests :
        r.interest_score = ScoreOf(trace[i].before.user_interests, r.user_id, r.topic)
                           + UpdatesIn(i, r.user_id, r.topic)

\* C12: after any sequence of operations there is at most one interest row per
\* (user, topic) pair, and the count of a pair never decreases: every update of a
\* pair, new or existing, raises its count by one
C12_OneRowCountsUp ==
    /\ OneRowPerPair
    /\ \A i \in Calls : NeverLower(i) /\ CountsUp(i)

\* a search that updated a pair twice, the second time as an existing pair, with
\* the clock passing on between its updates so that its rows carry two readings,
\* and a search of another user during which the store raised in the update of a
\* topic after the first: the same topic is a pair of either user, with its own
\* count
C12_Witness ==
    \E i, j \in Calls :
        /\ trace[i].user_id # trace[j].user_id
        /\ \E r \in After(i).user_interests :
               /\ r.user_id = trace[i].user_id
               /\ UpdatesIn(i, r.user_id, r.topic) = 2
               /\ r.interest_score = 2
        /\ trace[i].env.tick # 0
        /\ \E r1, r2 \in After(i).user_interests :
               /\ r1.user_id = trace[i].user_id /\ r2.user_id = trace[i].user_id
               /\ r1.last_accessed # r2.last_accessed
        /\ trace[j].env.store = "handler"
        /\ UpdatedTopics(j) # <<>>
        /\ Len(UpdatedTopics(j))
             < Len(_extract_topics_from_query(
                       After(j).search_history[Len(After(j).search_history)].query))
        /\ \E r1, r2 \in user_interests :
               /\ r1.user_id = trace[i].user_id /\ r2.user_id = trace[j].user_id
               /\ r1.topic = r2.topic
               /\ r1.interest_score # r2.interest_score

\* at most one row per paper identifier
OneRowPerPaper ==
    \A r1, r2 \in cached_papers : r1.paper_id = r2.paper_id => r1 = r2

\* get_cached_paper finds every paper identifier that had a row before entry i
StaysResolvable(i) ==
    \A r \in trace[i].before.cached_papers :
        NonEmptyDict(get_cached_paper(cached_papers, r.paper_id))

\* C13: after any sequence of searches, summaries and downloads the paper store
\* holds at most one row per paper identifier, and a paper identifier that has once
\* been stored stays resolvable by get_cached_paper
C13_OneRowStaysResolvable ==
    /\ OneRowPerPaper
    /\ \A i \in Calls : StaysResolvable(i)

\* a search that returned a paper again whose row held a generated summary: the row
\* was replaced and the paper is still found
C13_Witness ==
    \E i, j \in Calls :
        /\ i < j
        /\ trace[i].action = "generate_summary" /\ trace[i].calls # <<>>
        /\ trace[j].action = "search_papers"
        /\ get_cached_paper(trace[j].before.cached_papers, trace[i].paper_id).summary # NoText
        /\ get_cached_paper(After(j).cached_papers, trace[i].paper_id).summary = NoText

\* entry i is a download request
DownloadRequest(i) == trace[i].action = "download_paper"

\* the download handler of entry i reports a successful download
DownloadSucceeded(i) ==
    /\ "download_result" \in DOMAIN trace[i].handled
    /\ trace[i].handled.download_result.success

\* the download operation ran in entry i: the request names a paper and the
\* handler read it from the store
DownloadRan(i) ==
    /\ DownloadRequest(i)
    /\ ~Raises(trace[i].env, 1)
    /\ PaperRows(trace[i].before.cached_papers, trace[i].paper_id) # {}

\* what the download operation of entry i returned to the handler
DownloadResult(i) ==
    download_paper(trace[i].before.cached_papers, trace[i].before.files,
                   trace[i].paper_id, trace[i].env.net, Raises(trace[i].env, 2)).result

\* the download of entry i succeeded: the operation ran and returned success
Downloaded(i) == DownloadRan(i) /\ DownloadResult(i).success

\* entry i appended one download record, of its user and its paper
OneRecordMore(i) ==
    /\ Len(After(i).paper_downloads) = Len(trace[i].before.paper_downloads) + 1
    /\ SubSeq(After(i).paper_downloads, 1, Len(trace[i].before.paper_downloads))
           = trace[i].before.paper_downloads
    /\ After(i).paper_downloads[Len(After(i).paper_downloads)].user_id = trace[i].user_id
    /\ After(i).paper_downloads[Len(After(i).paper_downloads)].paper_id = trace[i].paper_id

\* C14 as stated: a download request that succeeds appends exactly one download
\* record for (user, paper identifier), one that fails (no paper reference, paper
\* not in the store, or a download that reports failure) appends none, and a user's
\* number of download records is the number of their successful download requests
C14_OneRecordPerSuccess_AsStated ==
    /\ \A i \in Calls :
           DownloadRequest(i)
           => IF Downloaded(i) THEN OneRecordMore(i)
              ELSE After(i).paper_downloads = trace[i].before.paper_downloads
    /\ \A u \in Users :
           Len(RowsOf(paper_downloads, u))
               = Cardinality({i \in Calls : trace[i].user_id = u /\ Downloaded(i)})

\* the download requests of user_id so far whose handler reported success
SuccessfulDownloads(user_id) ==
    {i \in Calls : /\ DownloadRequest(i)
                   /\ trace[i].user_id = user_id
                   /\ DownloadSucceeded(i)}

\* C14: a download request whose handler reports success appends exactly one
\* download record for (user, paper identifier); a download request that fails (no
\* paper reference, paper not in the store, a download that reports failure, or a
\* call of the handler on the store that raises) appends none, also when it is the
\* logging of the record that raises after the file was saved: the file then stays
\* without a record; and a user's number of download records is the number of their
\* download requests whose handler reported success
C14_OneRecordPerSuccess ==
    /\ \A i \in Calls :
           DownloadRequest(i)
           => /\ IF DownloadSucceeded(i) THEN OneRecordMore(i)
                 ELSE After(i).paper_downloads = trace[i].before.paper_downloads
              /\ DownloadSucceeded(i) <=> (Downloaded(i) /\ ~Raises(trace[i].env, 3))
              /\ (Downloaded(i) /\ Raises(trace[i].env, 3))
                 => /\ os_path_exists(After(i).files, DownloadResult(i).file_path)
                    /\ trace[i].handled.response = "Error downloading paper: " \o StoreError
    /\ \A u \in Users :
           Len(RowsOf(paper_downloads, u)) = Cardinality(SuccessfulDownloads(u))

\* a download that fetched the file and whose record could not be written, and a
\* second download of the paper, which found the file and wrote a record
C14_Witness ==
    \E i, j \in Calls :
        /\ i < j
        /\ trace[i].user_id = trace[j].user_id
        /\ Downloaded(i) /\ Raises(trace[i].env, 3) /\ ~DownloadSucceeded(i)
        /\ CallCount(i, "requests.get", trace[i].paper_id) = 1
        /\ DownloadRequest(j) /\ DownloadSucceeded(j)
        /\ trace[j].handled.download_result.already_existed
        /\ Len(RowsOf(paper_downloads, trace[i].user_id)) = 1

\* entry i mentions by its title, and not by its identifier, a paper that an
\* earlier search put into the store
MentionsStoredTitle(i) ==
    /\ trace[i].paper_id = NoText
    /\ \E r \in trace[i].before.cached_papers :
           r.title # NoText /\ Contains(trace[i].message, r.title)

\* C15: after a search that returned papers, a summary request that mentions one of
\* those papers by its title, without its paper identifier, returns that paper's
\* summary
C15_SummaryByTitle ==
    \A i \in Calls :
        (trace[i].action = "generate_summary" /\ MentionsStoredTitle(i))
        => /\ "summary" \in DOMAIN trace[i].payload
           /\ trace[i].calls # <<>>

\* example query 3 of the user interface
PreviousSearchesExample == "Show me my previous searches on AI topics"

\* the message asks for previous or past searches
AsksForPastSearches(ml) ==
    Contains(ml, "previous") \/ Contains(ml, "past searches")

\* C16: the example query 'Show me my previous searches on AI topics' is classified
\* get_history, and so is every message asking for "previous" or "past searches"
C16_PastSearchesAreHistory ==
    Analyzed
    => /\ message = PreviousSearchesExample => action = "get_history"
       /\ AsksForPastSearches(lower(message)) => action = "get_history"

\* the queries entry i gave to the paper search provider
SearchedQueries(i) ==
    {trace[i].calls[k][2] : k \in {n \in 1..Len(trace[i].calls) :
                                       trace[i].calls[n][1] = "search_papers"}}

\* entry i is a search that reached the paper search provider and got its answer
AnsweredSearch(i) ==
    /\ trace[i].action = "search_papers"
    /\ SearchedQueries(i) # {}
    /\ ~trace[i].env.results.raises

\* the provider answered entry i with no paper
ZeroResultSearch(i) == AnsweredSearch(i) /\ trace[i].env.results.papers = <<>>

\* the provider answered entry i with at least one paper
ResultSearch(i) ==
    /\ AnsweredSearch(i)
    /\ trace[i].env.results.papers # <<>>

\* the number, among the calls of the search handler of entry i on the store, of
\* the one that raised; a number past them all when none did. The calls are one
\* cache_paper per paper found, then log_search, then the interest updates.
RaisedAt(i) ==
    IF trace[i].env.store = "handler" THEN trace[i].env.at
    ELSE Len(trace[i].env.results.papers) + MaxTopics + 2

\* paper is in tbl, in one row that holds its fields and the query it was found with
Upserted(tbl, paper, queries) ==
    \E r \in tbl :
        /\ PaperRows(tbl, paper.id) = {r}
        /\ r.title = paper.title /\ r.abstract = paper.abstract /\ r.url = paper.url
        /\ r.authors = paper.authors /\ r.year = paper.year
        /\ r.search_query \in queries

\* the search of entry i wrote nothing
NoSearchWrites(i) ==
    /\ After(i).cached_papers = trace[i].before.cached_papers
    /\ After(i).search_history = trace[i].before.search_history
    /\ After(i).user_interests = trace[i].before.user_interests

\* entry i appended one search history entry, of its user and its query
OneEntryMore(i) ==
    /\ Len(After(i).search_history) = Len(trace[i].before.search_history) + 1
    /\ SubSeq(After(i).search_history, 1, Len(trace[i].before.search_history))
           = trace[i].before.search_history
    /\ After(i).search_history[Len(After(i).search_history)].user_id = trace[i].user_id
    /\ After(i).search_history[Len(After(i).search_history)].query \in SearchedQueries(i)

\* C19 as stated: a search for which the paper search provider returns zero results
\* gives the fixed no-results message and writes nothing; a search with at least
\* one result upserts every returned paper and appends exactly one search history
\* entry
C19_ZeroResultsNoWrites_AsStated ==
    \A i \in Calls :
        /\ ZeroResultSearch(i)
           => trace[i].handled.response = NoResultsText /\ NoSearchWrites(i)
        /\ ResultSearch(i)
           => /\ \A k \in 1..Len(trace[i].env.results.papers) :
                     Upserted(After(i).cached_papers, trace[i].env.results.papers[k],
                              SearchedQueries(i))
              /\ OneEntryMore(i)

\* C19: a search for which the paper search provider returns zero results gives the
\* fixed no-results message and writes nothing (no paper upserted, no search history
\* entry appended, no interest count changed); a search with at least one result
\* upserts every returned paper and appends exactly one search history entry when
\* the store answers the handler's calls, whether or not log_chat_session raises
\* after it. When a call of the handler on the store raises, the papers before it
\* are upserted and the rows of the others stay as they were, the search history
\* entry is appended only if the call that raised is an interest update, and up to
\* log_search the search answers with the text of the store error.
C19_ZeroResultsNoWrites ==
    \A i \in Calls :
        /\ ZeroResultSearch(i)
           => trace[i].handled.response = NoResultsText /\ NoSearchWrites(i)
        /\ ResultSearch(i)
           => LET papers == trace[i].env.results.papers
              IN  /\ \A k \in 1..Len(papers) :
                         IF k < RaisedAt(i)
                         THEN Upserted(After(i).cached_papers, papers[k], SearchedQueries(i))
                         ELSE PaperRows(After(i).cached_papers, papers[k].id)
                                  = PaperRows(trace[i].before.cached_papers, papers[k].id)
                  /\ IF RaisedAt(i) > Len(papers) + 1 THEN OneEntryMore(i)
                     ELSE /\ After(i).search_history = trace[i].before.search_history
                          /\ After(i).user_interests = trace[i].before.user_interests
                          /\ trace[i].handled.response
                                 = "Error searching for papers: " \o StoreError

\* a search with results followed by a search without: the store is filled and the
\* second search leaves it as it was
C19_Witness ==
    \E i, j \in Calls :
        /\ i < j
        /\ ResultSearch(i) /\ Len(trace[i].env.results.papers) >= 2
        /\ ZeroResultSearch(j)
        /\ trace[j].before.cached_papers # {}
        /\ trace[j].handled.response = NoResultsText

\* the download operation of entry i ran and reported failure
DownloadReportedFailure(i) ==
    /\ DownloadRequest(i)
    /\ "download_result" \in DOMAIN trace[i].handled
    /\ ~trace[i].handled.download_result.success

\* C20: after any download attempt that reports failure (HTML response, undersized
\* payload, timeout, request error or unexpected error, a failure while the body is
\* streamed to disk included) no file exists at the target path in the downloads
\* directory
C20_NoFileAfterFailure ==
    \A i \in Calls :
        DownloadReportedFailure(i) => ~os_path_exists(After(i).files, TargetPath(i))

\* the transcript of user_id, empty before the user's first message
TranscriptOf(user_id) ==
    IF user_id \in DOMAIN conversation_memory THEN conversation_memory[user_id] ELSE <<>>

\* the transcript of user_id holds two user entries in a row
TwoUserEntries(user_id) ==
    \E k \in 1..(Len(TranscriptOf(user_id)) - 1) :
        /\ TranscriptOf(user_id)[k].role = "user"
        /\ TranscriptOf(user_id)[k + 1].role = "user"

\* the calls that have appended their user entry and have not returned
Underway == {t \in 1..Len(tasks) :
                tasks[t].place \in {"dispatch", "append_assistant", "log"}}

\* the calls of user_id that have been given to the loop and have not returned
InFlight(user_id) ==
    {t \in 1..Len(tasks) : tasks[t].user_id = user_id /\ tasks[t].place # "done"}

\* two calls of user_id run concurrently: both have been given to the loop and
\* neither has returned
Concurrent(user_id) == Cardinality(InFlight(user_id)) >= 2

\* the calls on the language model: generate_content of the search handler (line
\* 240) and of the chat handler (line 402), generate_summary of the summary
\* handler (line 323)
LanguageModelCalls == {"generate_content", "generate_summary"}

\* the handler of the call asks the language model, the step of a call that takes
\* the longest, when user_id sends m in env with the store w: a search and a chat
\* always do; a summary request does when its message names a paper (line 296)
\* that is in the store (line 306) without a summary (line 313) and with title and
\* abstract (line 320); the other handlers never do
AsksLanguageModel(w, user_id, m, env) ==
    LET calls == _handle_user_request(w, user_id, m, _analyze_user_intent(m), env).calls
    IN  \E k \in 1..Len(calls) : calls[k][1] \in LanguageModelCalls

\* the call of user_id that the loop runs first
FirstInQueue(user_id) ==
    ready[CHOOSE k \in 1..Len(ready) :
            /\ tasks[ready[k]].user_id = user_id
            /\ \A j \in 1..(k - 1) : tasks[ready[j]].user_id # user_id]

\* two calls of user_id run concurrently with all the room for an interleaving:
\* the calls of the user that have not returned are two or more, none of them has
\* begun, and the one the loop runs first asks the language model
ConcurrentFromStart(user_id) ==
    /\ Concurrent(user_id)
    /\ \A t \in InFlight(user_id) : tasks[t].place = "append_user"
    /\ AsksLanguageModel(World, user_id, tasks[FirstInQueue(user_id)].message,
                         tasks[FirstInQueue(user_id)].env)

\* C18 as stated: when two process_message calls for the same user run
\* concurrently, their transcript appends can interleave: a state is reached in
\* which that user's transcript holds two consecutive user entries. The loop runs
\* the calls it holds in one order, that of its queue, and where a call gives up
\* the control is fixed by its request, so two calls that can interleave do: when
\* two calls of a user wait in the queue and the first asks the language model,
\* the second appends its user entry while the first waits for the answer, and a
\* state with two consecutive user entries of that user follows.
C18_AppendsInterleave_AsStated ==
    \A u \in Users : ConcurrentFromStart(u) ~> TwoUserEntries(u)

\* C18: when process_message calls for the same user run concurrently on the event
\* loop, their transcript appends do not interleave: no call gives up the control
\* between its user entry and its return, so at most one call is between the two
\* and no transcript ever holds two consecutive user entries
C18_AppendsDoNotInterleave ==
    /\ Cardinality(Underway) <= 1
    /\ \A u \in Users : ~TwoUserEntries(u)

\* two calls of one user run concurrently: the first has appended its user entry
\* and been handled, the second is waiting in the queue
C18_Witness ==
    \E u \in Users :
        \E t1, t2 \in InFlight(u) :
            /\ Concurrent(u)
            /\ t1 # t2
            /\ tasks[t1].place = "append_assistant"
            /\ tasks[t2].place = "append_user"
            /\ TranscriptOf(u)[Len(TranscriptOf(u))].role = "user"

\* what call t has appended to its user's transcript when it is at its place
EntriesOf(t) ==
    IF tasks[t].place = "append_user" THEN <<>>
    ELSE IF tasks[t].place \in {"dispatch", "append_assistant"}
    THEN <<[role |-> "user", message |-> tasks[t].message]>>
    ELSE <<[role |-> "user", message |-> tasks[t].message],
           [role |-> "assistant", message |-> tasks[t].handled.response]>>

\* the transcript of user_id if each of the first n calls, in the order the loop
\* was given them, has appended its entries in one piece
RECURSIVE TranscriptByCalls(_, _)
TranscriptByCalls(user_id, n) ==
    IF n = 0 THEN <<>>
    ELSE TranscriptByCalls(user_id, n - 1)
         \o (IF tasks[n].user_id = user_id THEN EntriesOf(n) ELSE <<>>)

\* the chat log if each of the first n calls that has returned wrote one row
RECURSIVE LogByCalls(_)
LogByCalls(n) ==
    IF n = 0 THEN <<>>
    ELSE LogByCalls(n - 1)
         \o (IF tasks[n].place = "done"
             THEN <<[user_id |-> tasks[n].user_id, message |-> tasks[n].message,
                     response |-> tasks[n].handled.response,
                     function_calls |-> FunctionCallsOf(tasks[n].handled)]>>
             ELSE <<>>)

\* user, assistant, user, assistant, ...
Alternates(entries) ==
    /\ Len(entries) % 2 = 0
    /\ \A k \in 1..Len(entries) :
           entries[k].role = (IF k % 2 = 1 THEN "user" ELSE "assistant")

AssistantEntries(entries) ==
    Cardinality({k \in 1..Len(entries) : entries[k].role = "assistant"})

\* C17: each process_message call that completes without an exception appends
\* exactly one user entry to its user's transcript, then dispatches to the handler,
\* then appends exactly one assistant entry, then writes exactly one chat log row;
\* so when no call is under way each user's transcript alternates user and
\* assistant entries and the user's chat log rows number the assistant entries
C17_StepsInOrder ==
    /\ \A u \in Users : TranscriptOf(u) = TranscriptByCalls(u, Len(tasks))
    /\ \A t \in 1..Len(tasks) :
           (tasks[t].handled = EmptyDict) <=> (tasks[t].place \in {"append_user", "dispatch"})
    /\ chat_sessions = LogByCalls(Len(tasks))
    /\ ready = <<>>
       => \A u \in Users :
              /\ Alternates(TranscriptOf(u))
              /\ Len(RowsOf(chat_sessions, u)) = AssistantEntries(TranscriptOf(u))

\* no call under way, one user with two calls returned and another with one
C17_Witness ==
    /\ ready = <<>>
    /\ \E u1, u2 \in Users :
           /\ u1 # u2
           /\ Len(TranscriptOf(u1)) = 4 /\ Len(RowsOf(chat_sessions, u1)) = 2
           /\ Len(TranscriptOf(u2)) = 2 /\ Len(RowsOf(chat_sessions, u2)) = 1

\* entry i is a summary request for a stored paper that has no summary and lacks
\* its title or its abstract
SummaryOfIncomplete(i) ==
    /\ trace[i].action = "generate_summary"
    /\ trace[i].paper_id # NoText
    /\ \E r \in PaperRows(trace[i].before.cached_papers, trace[i].paper_id) :
           /\ r.summary = NoText
           /\ r.title = "" \/ r.abstract = ""

\* C21: a summary request for a stored paper without a cached summary whose title or
\* abstract is empty returns the missing-title-or-abstract error, makes no
\* summarization provider call and leaves the paper's row, its summary field
\* included, as it was
C21_IncompletePaperRejected ==
    \A i \in Calls :
        SummaryOfIncomplete(i)
        => /\ trace[i].handled = [response |-> MissingFieldsText(trace[i].paper_id)]
           /\ trace[i].payload = trace[i].handled
           /\ trace[i].calls = <<>>
           /\ PaperRows(After(i).cached_papers, trace[i].paper_id)
                  = PaperRows(trace[i].before.cached_papers, trace[i].paper_id)
           /\ get_cached_paper(After(i).cached_papers, trace[i].paper_id).summary = NoText

\* both cases were rejected: a stored paper with a title and no abstract, and one
\* with an abstract and no title
C21_Witness ==
    \E i, j \in Calls :
        /\ SummaryOfIncomplete(i) /\ SummaryOfIncomplete(j)
        /\ \E r \in PaperRows(trace[i].before.cached_papers, trace[i].paper_id) :
               r.title # "" /\ r.abstract = ""
        /\ \E r \in PaperRows(trace[j].before.cached_papers, trace[j].paper_id) :
               r.title = "" /\ r.abstract # ""
        /\ trace[i].handled.response = MissingFieldsText(Paper2.id)
        /\ trace[j].handled.response = MissingFieldsText(Paper3.id)

\* at position i of m stands paper_ with exactly eight characters of [a-f0-9] after
\* it: the ninth is missing or is not of the class
ExactRefAt(m, i) ==
    /\ PaperRefAt(m, i)
    /\ i + 5 + PaperIdHexLen < Len(m) => ~IsHexChar(CharAt(m, i + 6 + PaperIdHexLen))

HasExactRef(m) == \E i \in 1..Len(m) : ExactRefAt(m, i)

\* C22: a message without a token paper_ followed by exactly eight lowercase hex
\* characters holds no paper reference for the summary and download handlers: they
\* answer it with their request for an identifier
C22_ExactlyEightHex ==
    \A i \in Calls :
        ~HasExactRef(trace[i].message)
        => /\ trace[i].action = "generate_summary"
              => trace[i].handled.response = SummaryPromptText
           /\ trace[i].action = "download_paper"
              => trace[i].handled.response = DownloadPromptText

\* C23: every intent of the closed set is the classification of some message; the
\* messages tried are those made of the words the rules look at, the keywords of
\* the downloads history among them
C23_EveryIntentReachable ==
    \A intent \in Intents : \E m \in IntentMessages : _analyze_user_intent(m) = intent

\* the classifier's reference test, re.search on message_lower, succeeds for the
\* message of entry i
ClassifierFindsRef(i) == PaperRefSearch(lower(trace[i].message))

\* C24: whenever the classifier's reference test succeeds on a message, the summary
\* handler and the download handler extract an identifier from that message and do
\* not answer with their request for an identifier
C24_HandlersFindWhatClassifierFinds ==
    \A i \in Calls :
        (ClassifierFindsRef(i) /\ trace[i].action \in {"generate_summary", "download_paper"})
        => /\ trace[i].paper_id # NoText
           /\ trace[i].handled.response \notin {SummaryPromptText, DownloadPromptText}

\* C25: a download result with success true names a file that passed validation: the
\* file at the returned path holds a completely fetched body of at least 1024
\* bytes, also when the result is served from a file that was already there
C25_SuccessMeansValidatedFile ==
    \A i \in Calls :
        DownloadSucceeded(i)
        => \E path \in {trace[i].handled.download_result.file_path} :
               /\ os_path_exists(After(i).files, path)
               /\ After(i).files[path].complete
               /\ After(i).files[path].size >= MinPdfBytes
               /\ trace[i].handled.download_result.file_size >= MinPdfBytes

\* the interest rows of user_id
InterestsOf(tbl, user_id) == {r \in tbl : r.user_id = user_id}

\* the step leaves what belongs to user_id as it was: the transcript, the searches
\* logged, the interest rows, the chat log entries and the download records
Untouched(user_id) ==
    /\ TranscriptOf(user_id)' = TranscriptOf(user_id)
    /\ RowsOf(search_history, user_id)' = RowsOf(search_history, user_id)
    /\ InterestsOf(user_interests, user_id)' = InterestsOf(user_interests, user_id)
    /\ RowsOf(chat_sessions, user_id)' = RowsOf(chat_sessions, user_id)
    /\ RowsOf(paper_downloads, user_id)' = RowsOf(paper_downloads, user_id)

\* C26: a process_message call for one user leaves every other user's transcript,
\* search-history entries, interest rows, chat-log entries and download records
\* unchanged, whether or not the store fails during the call
C26_OtherUsersUntouched ==
    [][\A user_id \in Users :
           (Len(trace') = Len(trace) + 1 /\ trace'[Len(trace')].user_id # user_id)
           => Untouched(user_id)]_vars

\* the first user has searched, so has a transcript, a search logged, interest
\* rows and a chat log entry, and the last call is a search of the second user that
\* stored papers and interests, with log_chat_session raising after it
C26_Witness ==
    /\ Len(trace) = 2
    /\ trace[2].user_id = "u2"
    /\ trace[2].action = "search_papers"
    /\ trace[2].env.log
    /\ "papers" \in DOMAIN trace[2].handled
    /\ InterestsOf(user_interests, "u2") # {}
    /\ RowsOf(chat_sessions, "u2") = <<>>
    /\ Len(TranscriptOf("u1")) = 2
    /\ Len(RowsOf(search_history, "u1")) = 1
    /\ InterestsOf(user_interests, "u1") # {}
    /\ Len(RowsOf(chat_sessions, "u1")) = 1

====
